---------------------------- MODULE Spec2Model ----------------------------
(***************************************************************************)
(* Floor-plan editor (impossidraw): rooms on a grid, per-room vertex/wall  *)
(* graphs, paired portals, and the snapshot undo/redo history.             *)
(*                                                                         *)
(* State is the React state of App (floorPlan, history, historyIndex) and  *)
(* of FloorPlanCanvas (selection, placement modes, draw gestures, pending  *)
(* portal connection).  Every action is one event handler, run to          *)
(* completion.  Numbers that the code divides and multiplies (vertex       *)
(* coordinates) are exact rationals <<numerator, denominator>>.            *)
(***************************************************************************)
EXTENDS Integers, Sequences, FiniteSets, TLC

VARIABLES
  floorPlan,                \* App: floorPlan
  history,                  \* App: history (sequence of floor plans)
  historyIndex,             \* App: historyIndex (0-based, -1 when empty)
  selectedId,               \* canvas: selected room id
  selectedWallId,           \* canvas: selected wall id
  selectedVertexId,         \* canvas: selected vertex id
  isPlacingRoom,            \* canvas: room placement mode
  isWallPlacementActive,    \* App prop: wall placement mode
  isPortalPlacementActive,  \* canvas: portal placement mode
  wallDraw,                 \* canvas: isDrawingWall, wallStartPoint, wallPreview
  portalDraw,               \* canvas: isDrawingPortal, portalStartPoint, portalPreview
  pendingPortalConnection,  \* canvas: pending connection or Null
  nextId,                   \* number of identifiers handed out by uuidv4
  portalColorCache,         \* portalUtils: portalColorCache (key -> colour)
  lastOp                    \* the handler that last addressed the floor plan

planVars == <<floorPlan, history, historyIndex>>
selVars  == <<selectedId, selectedWallId, selectedVertexId>>
modeVars == <<isPlacingRoom, isWallPlacementActive, isPortalPlacementActive>>
drawVars == <<wallDraw, portalDraw, pendingPortalConnection>>
vars     == <<floorPlan, history, historyIndex, selectedId, selectedWallId,
              selectedVertexId, isPlacingRoom, isWallPlacementActive,
              isPortalPlacementActive, wallDraw, portalDraw,
              pendingPortalConnection, nextId, portalColorCache, lastOp>>

\* null / undefined for identifiers (uuid identifiers are 1, 2, ...)
Null == 0
\* null for objects: an optional object is a sequence of length 0 or 1
None == <<>>
Some(x) == <<x>>

-----------------------------------------------------------------------------
(* Bounds of the model *)

\* number of identifiers uuidv4 may hand out in one behaviour
MaxIds == 9
\* identifiers handed out in one behaviour of the two-room portal specifications
MaxPortalIds == 8
\* longest history in one behaviour of the portal specifications
MaxHistory == 6
\* rooms placed, and longest history, in one behaviour of the rooms specification
MaxRooms == 3
MaxRoomsHistory == 5
\* identifiers handed out, and longest history, in one behaviour of the walls
\* specification
MaxWallIds == 5
MaxWallsHistory == 5
\* identifiers handed out in one behaviour of the merge specification
MaxMergeIds == 6
\* identifiers handed out, and longest history, in one behaviour of the pair
\* deletion specification
MaxPairIds == 8
MaxPairHistory == 6
\* identifiers and history entries in one behaviour of the cancel specification
MaxCancelIds == 7
MaxCancelHistory == 4
\* identifiers and history entries in one behaviour of the deletion specification
MaxDeleteIds == 7
MaxDeleteHistory == 5
\* history entries in one behaviour of the wall deletion specification with
\* undo and redo
MaxOrphanHistory == 7
\* identifiers and history entries in one behaviour of the vertex reuse
\* specification
MaxReuseIds == 6
MaxReuseHistory == 4
\* identifiers and history entries in one behaviour of the wall and portal
\* specification
MaxFlagIds == 6
MaxFlagHistory == 5
\* identifiers and history entries in one behaviour of the portal utilities
\* specification
MaxUtilIds == 9
MaxUtilHistory == 4
\* identifiers and history entries in one behaviour of the stale connection
\* specification
MaxStaleIds == 8
MaxStaleHistory == 5
\* longest history in one behaviour of the dangling link specification
MaxDanglingHistory == 7
\* rooms, identifiers and history entries in one behaviour of the mirrored move
\* specification
MaxMirrorRooms == 3
MaxMirrorIds == 9
MaxMirrorHistory == 8
\* identifiers and history entries in one behaviour of the import specification
MaxImportIds == 5
MaxImportHistory == 5

-----------------------------------------------------------------------------
(* Program constants *)

DefaultGridSize == 100
HistoryLimit == 50
mergeThreshold == 15
sensitivity == 10
endVertexSensitivity == 10
MinLength == 10

-----------------------------------------------------------------------------
(* Exact arithmetic on numbers <<n, d>> with d > 0, in lowest terms *)

Abs(n) == IF n < 0 THEN -n ELSE n

RECURSIVE GCD(_, _)
GCD(a, b) == IF b = 0 THEN a ELSE GCD(b, a % b)

Norm(n, d) ==
  LET s == IF d < 0 THEN -1 ELSE 1
      g == GCD(Abs(n), Abs(d))
  IN  <<(s * n) \div g, (s * d) \div g>>

R(n) == <<n, 1>>
RAdd(a, b) == Norm(a[1] * b[2] + b[1] * a[2], a[2] * b[2])
RSub(a, b) == Norm(a[1] * b[2] - b[1] * a[2], a[2] * b[2])
RMul(a, b) == Norm(a[1] * b[1], a[2] * b[2])
RDiv(a, b) == Norm(a[1] * b[2], a[2] * b[1])
RLt(a, b)  == a[1] * b[2] < b[1] * a[2]
RLe(a, b)  == a[1] * b[2] <= b[1] * a[2]
RMin(a, b) == IF RLt(b, a) THEN b ELSE a
RMax(a, b) == IF RLt(a, b) THEN b ELSE a

\* Math.sqrt(dx*dx + dy*dy) compared with a non-negative limit, by squares
DistSq(x1, y1, x2, y2) ==
  LET dx == RSub(x1, x2)
      dy == RSub(y1, y2)
  IN  RAdd(RMul(dx, dx), RMul(dy, dy))
DistLt(x1, y1, x2, y2, limit) == RLt(DistSq(x1, y1, x2, y2), R(limit * limit))
DistGt(x1, y1, x2, y2, limit) == RLt(R(limit * limit), DistSq(x1, y1, x2, y2))

\* Math.floor(n / d) and Math.round(n / d) for integers n and d > 0
FloorDiv(n, d) == n \div d
RoundDiv(n, d) == (2 * n + d) \div (2 * d)
Min(a, b) == IF a < b THEN a ELSE b

-----------------------------------------------------------------------------
(* Sequences *)

Range(s) == {s[i] : i \in 1..Len(s)}
MapSeq(s, F(_)) == [i \in 1..Len(s) |-> F(s[i])]
Contains(s, e) == \E i \in 1..Len(s) : s[i] = e
\* Array.prototype.indexOf, 1-based, 0 when absent
IndexOf(s, e) == IF Contains(s, e)
                 THEN CHOOSE i \in 1..Len(s) : s[i] = e /\ \A j \in 1..(i - 1) : s[j] # e
                 ELSE 0
\* Array.prototype.find on a predicate: first match
FirstIndex(s, P(_)) == IF \E i \in 1..Len(s) : P(s[i])
                       THEN CHOOSE i \in 1..Len(s) : P(s[i]) /\ \A j \in 1..(i - 1) : ~P(s[j])
                       ELSE 0
LastIndex(s, P(_)) == IF \E i \in 1..Len(s) : P(s[i])
                      THEN CHOOSE i \in 1..Len(s) : P(s[i]) /\ \A j \in (i + 1)..Len(s) : ~P(s[j])
                      ELSE 0

-----------------------------------------------------------------------------
(* Data model: types/Room.ts *)

Vertex(id, x, y, isPortalVertex) ==
  [id |-> id, x |-> x, y |-> y, isPortalVertex |-> isPortalVertex]

\* a plain wall carries no isPortal key; its link fields read as absent
Wall(id, vertexIds) ==
  [id |-> id, vertexIds |-> vertexIds, isPortal |-> FALSE,
   connectedRoomId |-> Null, connectedPortalId |-> Null]

Portal(id, vertexIds, connectedRoomId, connectedPortalId) ==
  [id |-> id, vertexIds |-> vertexIds, isPortal |-> TRUE,
   connectedRoomId |-> connectedRoomId, connectedPortalId |-> connectedPortalId]

HasRoom(fp, id) == \E i \in 1..Len(fp.rooms) : fp.rooms[i].id = id
FindRoom(fp, id) == fp.rooms[FirstIndex(fp.rooms, LAMBDA r : r.id = id)]
HasWall(room, id) == \E i \in 1..Len(room.walls) : room.walls[i].id = id
FindWall(room, id) == room.walls[FirstIndex(room.walls, LAMBDA w : w.id = id)]
HasVertex(room, id) == \E i \in 1..Len(room.vertices) : room.vertices[i].id = id
FindVertex(room, id) == room.vertices[FirstIndex(room.vertices, LAMBDA v : v.id = id)]

\* rooms.map(r => r.id === id ? F(r) : r)
MapRoom(fp, id, F(_)) ==
  [fp EXCEPT !.rooms = MapSeq(fp.rooms, LAMBDA r : IF r.id = id THEN F(r) ELSE r)]

-----------------------------------------------------------------------------
(* History: App.tsx *)

\* addToHistory: the new <<history, historyIndex>>
addToHistory_NoDedup(h, idx, newFloorPlan) ==
  LET newHistory == SubSeq(h, 1, idx + 1)
      pushed == Append(newHistory, newFloorPlan)
      capped == IF Len(pushed) > HistoryLimit THEN Tail(pushed) ELSE pushed
  IN  <<capped, Len(capped) - 1>>

addToHistory_NoTruncate(h, idx, newFloorPlan) ==
  LET newHistory == h
      pushed == Append(newHistory, newFloorPlan)
      capped == IF Len(pushed) > HistoryLimit THEN Tail(pushed) ELSE pushed
  IN  IF idx >= 0 /\ h[idx + 1] = newFloorPlan
      THEN <<h, idx>>
      ELSE <<capped, Len(capped) - 1>>

addToHistory_NoCap(h, idx, newFloorPlan) ==
  LET newHistory == SubSeq(h, 1, idx + 1)
      pushed == Append(newHistory, newFloorPlan)
  IN  IF Len(newHistory) > 0 /\ newHistory[Len(newHistory)] = newFloorPlan
      THEN <<h, idx>>
      ELSE <<pushed, Len(pushed) - 1>>

addToHistory(h, idx, newFloorPlan) ==
  LET newHistory == SubSeq(h, 1, idx + 1)
      pushed == Append(newHistory, newFloorPlan)
      capped == IF Len(pushed) > HistoryLimit THEN Tail(pushed) ELSE pushed
  IN  IF Len(newHistory) > 0 /\ newHistory[Len(newHistory)] = newFloorPlan
      THEN <<h, idx>>
      ELSE <<capped, Len(capped) - 1>>

\* setFloorPlan(p); addToHistory(p)
Commit(p) ==
  /\ floorPlan' = p
  /\ history' = addToHistory(history, historyIndex, p)[1]
  /\ historyIndex' = addToHistory(history, historyIndex, p)[2]

\* uuidv4 hands out n more identifiers
CanAlloc(n) == nextId + n <= MaxIds

\* the handler that ran: its name, the room it addressed, the branch it took
\* and its other arguments: <<vertex id, new x, new y>> of a vertex drag, the
\* drop position of a room drag, the size asked of a resize, the wall deleted
OpArg(name, room, kind, arg) ==
  [name |-> name, room |-> room, kind |-> kind, arg |-> arg]
Op(name, room, kind) == OpArg(name, room, kind, <<>>)

-----------------------------------------------------------------------------
(* Room registry: FloorPlanCanvas.tsx *)

\* name, color and portalIds are carried unchanged and never read by an edit
NewRoom(fp, id, gridX, gridY) ==
  [id |-> id,
   x |-> gridX * fp.gridSizeWidth, y |-> gridY * fp.gridSizeHeight,
   width |-> fp.gridSizeWidth, height |-> fp.gridSizeHeight,
   portals |-> <<>>, walls |-> <<>>, vertices |-> <<>>,
   gridX |-> gridX, gridY |-> gridY]

CellOccupied_Never(fp, gridX, gridY) == FALSE

CellOccupied(fp, gridX, gridY) ==
  \E i \in 1..Len(fp.rooms) : fp.rooms[i].gridX = gridX /\ fp.rooms[i].gridY = gridY

\* isOccupied of handleRoomDragEnd: a room other than roomId holds the cell
CellOccupiedByOther(fp, roomId, gridX, gridY) ==
  \E i \in 1..Len(fp.rooms) :
     /\ fp.rooms[i].id # roomId
     /\ fp.rooms[i].gridX = gridX
     /\ fp.rooms[i].gridY = gridY

\* placeRoomAtGridPosition: the plan with the new room appended
placeRoomPlan(fp, gridX, gridY, newRoomId) ==
  [fp EXCEPT !.rooms = Append(fp.rooms, NewRoom(fp, newRoomId, gridX, gridY))]

placeRoomAtGridPosition_PlacesRejected(gridX, gridY) ==
  /\ CanAlloc(1)
  /\ Commit(placeRoomPlan(floorPlan, gridX, gridY, nextId + 1))
  /\ nextId' = nextId + 1
  /\ selectedId' = nextId + 1
  /\ lastOp' = Op("placeRoomAtGridPosition", nextId + 1,
                  IF CellOccupied(floorPlan, gridX, gridY) THEN "rejected" ELSE "placed")

placeRoomAtGridPosition(gridX, gridY) ==
  IF CellOccupied(floorPlan, gridX, gridY)
  THEN /\ UNCHANGED <<planVars, selectedId, nextId>>
       /\ lastOp' = Op("placeRoomAtGridPosition", Null, "rejected")
  ELSE /\ CanAlloc(1)
       /\ Commit(placeRoomPlan(floorPlan, gridX, gridY, nextId + 1))
       /\ nextId' = nextId + 1
       /\ selectedId' = nextId + 1
       /\ lastOp' = Op("placeRoomAtGridPosition", nextId + 1, "placed")

moveRoomPlan_KeepOrigin(fp, roomId, newGridX, newGridY) ==
  MapRoom(fp, roomId, LAMBDA r : [r EXCEPT !.gridX = newGridX, !.gridY = newGridY])

\* handleRoomDragEnd: the plan with the room moved to the snapped cell
moveRoomPlan(fp, roomId, newGridX, newGridY) ==
  MapRoom(fp, roomId, LAMBDA r :
    [r EXCEPT !.x = newGridX * fp.gridSizeWidth,
              !.y = newGridY * fp.gridSizeHeight,
              !.gridX = newGridX,
              !.gridY = newGridY])

handleRoomDragEnd(roomId, newX, newY) ==
  LET room == FindRoom(floorPlan, roomId)
      newGridX == RoundDiv(newX, floorPlan.gridSizeWidth)
      newGridY == RoundDiv(newY, floorPlan.gridSizeHeight)
  IN  /\ HasRoom(floorPlan, roomId)
      /\ UNCHANGED <<selVars, modeVars, drawVars, nextId>>
      /\ IF room.gridX = newGridX /\ room.gridY = newGridY
         THEN /\ UNCHANGED planVars
              /\ lastOp' = OpArg("handleRoomDragEnd", roomId, "same cell", <<newX, newY>>)
         ELSE IF CellOccupiedByOther(floorPlan, roomId, newGridX, newGridY)
         THEN /\ UNCHANGED planVars
              /\ lastOp' = OpArg("handleRoomDragEnd", roomId, "rejected", <<newX, newY>>)
         ELSE /\ Commit(moveRoomPlan(floorPlan, roomId, newGridX, newGridY))
              /\ lastOp' = OpArg("handleRoomDragEnd", roomId, "moved", <<newX, newY>>)

resizeRoomPlan_Unclamped(fp, id, newWidth, newHeight) ==
  MapRoom(fp, id, LAMBDA r : [r EXCEPT !.width = newWidth, !.height = newHeight])

\* updateRoomSize
resizeRoomPlan(fp, id, newWidth, newHeight) ==
  MapRoom(fp, id, LAMBDA r :
    [r EXCEPT !.width = Min(newWidth, fp.gridSizeWidth),
              !.height = Min(newHeight, fp.gridSizeHeight)])

updateRoomSize(id, newWidth, newHeight) ==
  /\ HasRoom(floorPlan, id)
  /\ Commit(resizeRoomPlan(floorPlan, id, newWidth, newHeight))
  /\ UNCHANGED <<selVars, modeVars, drawVars, nextId>>
  /\ lastOp' = OpArg("updateRoomSize", id, "resized", <<newWidth, newHeight>>)

\* deleteRoom: the links are cleared in the legacy list room.portals
clearLinksTo(portals, roomId) ==
  MapSeq(portals, LAMBDA p :
    IF p.connectedRoomId = roomId
    THEN [p EXCEPT !.connectedRoomId = Null, !.connectedPortalId = Null]
    ELSE p)

deleteRoomPlan(fp, roomId) ==
  [fp EXCEPT !.rooms =
     MapSeq(SelectSeq(fp.rooms, LAMBDA r : r.id # roomId),
            LAMBDA r : [r EXCEPT !.portals = clearLinksTo(r.portals, roomId)])]

deleteRoom(roomId) ==
  /\ Commit(deleteRoomPlan(floorPlan, roomId))
  /\ selectedId' = Null
  /\ lastOp' = Op("deleteRoom", roomId, "deleted")

-----------------------------------------------------------------------------
(* Undo / redo: App.tsx *)

handleUndo_KeepPlan ==
  /\ UNCHANGED <<history, selVars, modeVars, drawVars, nextId, floorPlan>>
  /\ IF historyIndex > 0
     THEN /\ historyIndex' = historyIndex - 1
          /\ lastOp' = Op("handleUndo", Null, "undone")
     ELSE /\ UNCHANGED historyIndex
          /\ lastOp' = Op("handleUndo", Null, "nothing")

\* variant: the cursor moves back and the floor plan stays
handleUndo_CursorOnly ==
  /\ UNCHANGED <<history, floorPlan, selVars, modeVars, drawVars, nextId>>
  /\ IF historyIndex > 0
     THEN /\ historyIndex' = historyIndex - 1
          /\ lastOp' = Op("handleUndo", Null, "undone")
     ELSE /\ UNCHANGED historyIndex
          /\ lastOp' = Op("handleUndo", Null, "nothing")

handleUndo ==
  /\ UNCHANGED <<history, selVars, modeVars, drawVars, nextId>>
  /\ IF historyIndex > 0
     THEN /\ historyIndex' = historyIndex - 1
          /\ floorPlan' = history[(historyIndex - 1) + 1]
          /\ lastOp' = Op("handleUndo", Null, "undone")
     ELSE /\ UNCHANGED <<floorPlan, historyIndex>>
          /\ lastOp' = Op("handleUndo", Null, "nothing")

\* variant: redo jumps to the newest entry
handleRedo_ToNewest ==
  /\ UNCHANGED <<history, selVars, modeVars, drawVars, nextId>>
  /\ IF historyIndex < Len(history) - 1
     THEN /\ historyIndex' = Len(history) - 1
          /\ floorPlan' = history[Len(history)]
          /\ lastOp' = Op("handleRedo", Null, "redone")
     ELSE /\ UNCHANGED <<floorPlan, historyIndex>>
          /\ lastOp' = Op("handleRedo", Null, "nothing")

handleRedo ==
  /\ UNCHANGED <<history, selVars, modeVars, drawVars, nextId>>
  /\ IF historyIndex < Len(history) - 1
     THEN /\ historyIndex' = historyIndex + 1
          /\ floorPlan' = history[(historyIndex + 1) + 1]
          /\ lastOp' = Op("handleRedo", Null, "redone")
     ELSE /\ UNCHANGED <<floorPlan, historyIndex>>
          /\ lastOp' = Op("handleRedo", Null, "nothing")

\* what handleUndo makes of <<history, historyIndex, floorPlan>>
undoOf(h, idx, fp) ==
  IF idx > 0 THEN <<h, idx - 1, h[(idx - 1) + 1]>> ELSE <<h, idx, fp>>

\* what handleRedo makes of <<history, historyIndex, floorPlan>>
redoOf(h, idx, fp) ==
  IF idx < Len(h) - 1 THEN <<h, idx + 1, h[(idx + 1) + 1]>> ELSE <<h, idx, fp>>

-----------------------------------------------------------------------------
(* Vertex drag: handleVertexDrag *)

Truthy(id) == id # Null

\* the first portal wall of the room that uses the vertex, has both links set
\* and whose counterpart room and wall exist; 0 when there is none
connectedPortalIndex(fp, room, vertexId) ==
  FirstIndex(room.walls, LAMBDA w :
    /\ Contains(w.vertexIds, vertexId)
    /\ w.isPortal
    /\ Truthy(w.connectedRoomId) /\ Truthy(w.connectedPortalId)
    /\ HasRoom(fp, w.connectedRoomId)
    /\ HasWall(FindRoom(fp, w.connectedRoomId), w.connectedPortalId))

connectedPortalInfo(fp, room, vertexId) ==
  IF FindVertex(room, vertexId).isPortalVertex
     /\ connectedPortalIndex(fp, room, vertexId) # 0
  THEN LET w == room.walls[connectedPortalIndex(fp, room, vertexId)]
       IN  Some([sourcePortalId |-> w.id,
                 targetRoomId |-> w.connectedRoomId,
                 targetPortalId |-> w.connectedPortalId,
                 draggedVertexIndex |-> IndexOf(w.vertexIds, vertexId)])
  ELSE None

\* the first other vertex closer than the merge threshold; 0 when none
mergeTargetIndex_Never(room, vertexId, newX, newY) == 0

mergeTargetIndex(room, vertexId, newX, newY) ==
  FirstIndex(room.vertices, LAMBDA v :
    /\ v.id # vertexId
    /\ DistLt(v.x, v.y, newX, newY, mergeThreshold))

\* updatedVertexIds.filter((vid, index) => updatedVertexIds.indexOf(vid) === index)
Unique(ids) ==
  LET keep == {i \in 1..Len(ids) : IndexOf(ids, ids[i]) = i}
      F[i \in 0..Len(ids)] ==
        IF i = 0 THEN <<>>
        ELSE IF i \in keep THEN Append(F[i - 1], ids[i]) ELSE F[i - 1]
  IN  F[Len(ids)]

\* the walls of the room after vertexId has been merged into targetId
mergeWalls(walls, vertexId, targetId) ==
  LET rewritten == MapSeq(walls, LAMBDA w :
        IF Contains(w.vertexIds, vertexId)
        THEN [w EXCEPT !.vertexIds =
                Unique(MapSeq(w.vertexIds, LAMBDA vid :
                         IF vid = vertexId THEN targetId ELSE vid))]
        ELSE w)
  IN  SelectSeq(rewritten, LAMBDA w : Len(w.vertexIds) >= 2)

mergePlan(fp, roomId, vertexId, targetId) ==
  MapRoom(fp, roomId, LAMBDA r :
    [r EXCEPT !.walls = mergeWalls(r.walls, vertexId, targetId),
              !.vertices = SelectSeq(r.vertices, LAMBDA v : v.id # vertexId)])

moveVertexIn(room, vertexId, newX, newY) ==
  [room EXCEPT !.vertices = MapSeq(room.vertices, LAMBDA v :
     IF v.id = vertexId THEN [v EXCEPT !.x = newX, !.y = newY] ELSE v)]

plainMovePlan(fp, roomId, vertexId, newX, newY) ==
  MapRoom(fp, roomId, LAMBDA r : moveVertexIn(r, vertexId, newX, newY))

\* the movement of the dragged vertex, relative to the source room, applied
\* to the target room: (new - old) / source size * target size
mirroredDelta_Unscaled(new, old, sourceSize, targetSize) == RSub(new, old)

mirroredDelta(new, old, sourceSize, targetSize) ==
  RMul(RDiv(RSub(new, old), R(sourceSize)), R(targetSize))

\* variant: both endpoints of the target portal are translated
linkedMovePlan_MovesBoth(fp, roomId, vertexId, newX, newY, info) ==
  LET sourceRoom == FindRoom(fp, roomId)
      targetRoom == FindRoom(fp, info.targetRoomId)
      oldVertex == FindVertex(sourceRoom, vertexId)
      targetPortal == FindWall(targetRoom, info.targetPortalId)
      dx == mirroredDelta(newX, oldVertex.x, sourceRoom.width, targetRoom.width)
      dy == mirroredDelta(newY, oldVertex.y, sourceRoom.height, targetRoom.height)
  IN  [fp EXCEPT !.rooms = MapSeq(fp.rooms, LAMBDA r :
        IF r.id = roomId THEN moveVertexIn(r, vertexId, newX, newY)
        ELSE IF r.id = targetRoom.id
             THEN [r EXCEPT !.vertices = MapSeq(r.vertices, LAMBDA v :
                     IF Contains(targetPortal.vertexIds, v.id)
                     THEN [v EXCEPT !.x = RAdd(v.x, dx), !.y = RAdd(v.y, dy)]
                     ELSE v)]
             ELSE r)]

\* portal-linked move: both rooms updated; the source room is matched first
linkedMovePlan(fp, roomId, vertexId, newX, newY, info) ==
  LET sourceRoom == FindRoom(fp, roomId)
      targetRoom == FindRoom(fp, info.targetRoomId)
      oldVertex == FindVertex(sourceRoom, vertexId)
      targetPortal == FindWall(targetRoom, info.targetPortalId)
      targetVertexId == targetPortal.vertexIds[info.draggedVertexIndex]
      targetPortalVertex == FindVertex(targetRoom, targetVertexId)
      newTargetX == RAdd(targetPortalVertex.x,
                         mirroredDelta(newX, oldVertex.x, sourceRoom.width, targetRoom.width))
      newTargetY == RAdd(targetPortalVertex.y,
                         mirroredDelta(newY, oldVertex.y, sourceRoom.height, targetRoom.height))
  IN  [fp EXCEPT !.rooms = MapSeq(fp.rooms, LAMBDA r :
        IF r.id = roomId THEN moveVertexIn(r, vertexId, newX, newY)
        ELSE IF r.id = targetRoom.id
             THEN moveVertexIn(r, targetVertexId, newTargetX, newTargetY)
             ELSE r)]

\* the mirrored endpoint of the target portal exists
linkedTargetResolves(fp, info) ==
  LET targetRoom == FindRoom(fp, info.targetRoomId)
      targetPortal == FindWall(targetRoom, info.targetPortalId)
  IN  /\ info.draggedVertexIndex <= Len(targetPortal.vertexIds)
      /\ HasVertex(targetRoom, targetPortal.vertexIds[info.draggedVertexIndex])

\* variant: a link whose counterpart is missing makes the drag give up
vertexDragKind_GivesUp(fp, roomId, vertexId, newX, newY) ==
  LET room == FindRoom(fp, roomId)
      info == connectedPortalInfo(fp, room, vertexId)
      linked == \E i \in 1..Len(room.walls) :
                  /\ room.walls[i].isPortal
                  /\ Contains(room.walls[i].vertexIds, vertexId)
                  /\ Truthy(room.walls[i].connectedRoomId)
                  /\ Truthy(room.walls[i].connectedPortalId)
  IN  IF info = None /\ linked THEN "abort"
      ELSE IF mergeTargetIndex(room, vertexId, newX, newY) # 0 THEN "merge"
      ELSE IF info = None THEN "move"
      ELSE IF linkedTargetResolves(fp, info[1]) THEN "mirror"
      ELSE "abort"

\* which branch handleVertexDrag takes
vertexDragKind(fp, roomId, vertexId, newX, newY) ==
  LET room == FindRoom(fp, roomId)
      info == connectedPortalInfo(fp, room, vertexId)
  IN  IF mergeTargetIndex(room, vertexId, newX, newY) # 0 THEN "merge"
      ELSE IF info = None THEN "move"
      ELSE IF linkedTargetResolves(fp, info[1]) THEN "mirror"
      ELSE "abort"

vertexDragPlan(fp, roomId, vertexId, newX, newY) ==
  LET room == FindRoom(fp, roomId)
      info == connectedPortalInfo(fp, room, vertexId)
      kind == vertexDragKind(fp, roomId, vertexId, newX, newY)
  IN  CASE kind = "merge" ->
             mergePlan(fp, roomId, vertexId,
                       room.vertices[mergeTargetIndex(room, vertexId, newX, newY)].id)
        [] kind = "move" -> plainMovePlan(fp, roomId, vertexId, newX, newY)
        [] kind = "mirror" -> linkedMovePlan(fp, roomId, vertexId, newX, newY, info[1])
        [] OTHER -> fp

handleVertexDrag(roomId, vertexId, newX, newY) ==
  LET kind == vertexDragKind(floorPlan, roomId, vertexId, newX, newY)
  IN  /\ HasRoom(floorPlan, roomId)
      /\ HasVertex(FindRoom(floorPlan, roomId), vertexId)
      /\ IF kind = "abort"
         THEN UNCHANGED <<planVars, selectedVertexId>>
         ELSE /\ Commit(vertexDragPlan(floorPlan, roomId, vertexId, newX, newY))
              /\ selectedVertexId' = IF kind = "merge" THEN Null ELSE selectedVertexId
      /\ UNCHANGED <<selectedId, selectedWallId, modeVars, drawVars, nextId>>
      /\ lastOp' = OpArg("handleVertexDrag", roomId, kind, <<vertexId, newX, newY>>)

-----------------------------------------------------------------------------
(* Wall deletion: handleWallDelete *)

\* vertexUsageCounts[vertexId]: occurrences of the vertex in the walls' lists
usageCount(walls, vertexId) ==
  LET F[i \in 0..Len(walls)] ==
        IF i = 0 THEN 0
        ELSE F[i - 1] + Cardinality({k \in 1..Len(walls[i].vertexIds) :
                                        walls[i].vertexIds[k] = vertexId})
  IN  F[Len(walls)]

removeWallFrom(room, wallId) ==
  LET wallToDelete == FindWall(room, wallId)
      unusedVertexIds == {wallToDelete.vertexIds[k] : k \in
                            {j \in 1..Len(wallToDelete.vertexIds) :
                               usageCount(room.walls, wallToDelete.vertexIds[j]) = 1}}
  IN  [room EXCEPT !.walls = SelectSeq(room.walls, LAMBDA w : w.id # wallId),
                   !.vertices = SelectSeq(room.vertices,
                                          LAMBDA v : v.id \notin unusedVertexIds)]

wallDeletePlan_OneSided(fp, roomId, wallId) ==
  MapRoom(fp, roomId, LAMBDA room : removeWallFrom(room, wallId))

wallDeletePlan(fp, roomId, wallId) ==
  LET wallToDelete == FindWall(FindRoom(fp, roomId), wallId)
      isPortalWithConnection ==
        /\ wallToDelete.isPortal
        /\ Truthy(wallToDelete.connectedRoomId)
        /\ Truthy(wallToDelete.connectedPortalId)
  IN  [fp EXCEPT !.rooms = MapSeq(fp.rooms, LAMBDA room :
        IF room.id = roomId THEN removeWallFrom(room, wallId)
        ELSE IF /\ isPortalWithConnection
                /\ room.id = wallToDelete.connectedRoomId
                /\ HasWall(room, wallToDelete.connectedPortalId)
             THEN removeWallFrom(room, wallToDelete.connectedPortalId)
             ELSE room)]

handleWallDelete(roomId, wallId) ==
  IF HasRoom(floorPlan, roomId) /\ HasWall(FindRoom(floorPlan, roomId), wallId)
  THEN /\ Commit(wallDeletePlan(floorPlan, roomId, wallId))
       /\ selectedWallId' = Null
       /\ lastOp' = OpArg("handleWallDelete", roomId, "deleted", <<wallId>>)
  ELSE /\ UNCHANGED <<planVars, selectedWallId>>
       /\ lastOp' = Op("handleWallDelete", roomId, "missing")

-----------------------------------------------------------------------------
(* Draw gestures: handleWallDrawingStart/Move/End, handlePortalDrawingStart/Move/End *)

NoDraw == [isDrawing |-> FALSE, startPoint |-> None, preview |-> None]

StartPoint(x, y, roomId, vertexId) ==
  [x |-> x, y |-> y, roomId |-> roomId, vertexId |-> vertexId]
Preview(startX, startY, endX, endY) ==
  [startX |-> startX, startY |-> startY, endX |-> endX, endY |-> endY]

InBounds(room, localX, localY) ==
  ~ (localX < 0 \/ localX > room.width \/ localY < 0 \/ localY > room.height)

\* the nearest vertex closer than the sensitivity (the first of the nearest); 0 when none
nearestVertexIndex(room, localX, localY) ==
  FirstIndex(room.vertices, LAMBDA v :
    /\ DistLt(v.x, v.y, localX, localY, sensitivity)
    /\ \A k \in 1..Len(room.vertices) :
         RLe(DistSq(v.x, v.y, localX, localY),
             DistSq(room.vertices[k].x, room.vertices[k].y, localX, localY)))

\* the last vertex closer than the sensitivity; 0 when none
lastVertexNear(room, localX, localY, limit) ==
  LastIndex(room.vertices, LAMBDA v : DistLt(v.x, v.y, localX, localY, limit))

\* handle{Wall,Portal}DrawingStart past its guards: the gesture state
drawingStart(room, x, y) ==
  LET localX == R(x - room.x)
      localY == R(y - room.y)
      n == nearestVertexIndex(room, localX, localY)
  IN  IF n # 0
      THEN [isDrawing |-> TRUE,
            startPoint |-> Some(StartPoint(room.vertices[n].x, room.vertices[n].y,
                                           room.id, room.vertices[n].id)),
            preview |-> Some(Preview(room.vertices[n].x, room.vertices[n].y,
                                     room.vertices[n].x, room.vertices[n].y))]
      ELSE [isDrawing |-> TRUE,
            startPoint |-> Some(StartPoint(localX, localY, room.id, Null)),
            preview |-> Some(Preview(localX, localY, localX, localY))]

\* handle{Wall,Portal}DrawingMove: the gesture state after the pointer moved
drawingMove(fp, draw, x, y) ==
  IF ~draw.isDrawing \/ draw.startPoint = None THEN draw
  ELSE IF ~HasRoom(fp, draw.startPoint[1].roomId) THEN draw
  ELSE LET room == FindRoom(fp, draw.startPoint[1].roomId)
           localX == RMax(R(0), RMin(R(room.width), R(x - room.x)))
           localY == RMax(R(0), RMin(R(room.height), R(y - room.y)))
           n == lastVertexNear(room, localX, localY, sensitivity)
           snapToX == IF n # 0 THEN room.vertices[n].x ELSE localX
           snapToY == IF n # 0 THEN room.vertices[n].y ELSE localY
       IN  [draw EXCEPT !.preview =
              Some(Preview(draw.startPoint[1].x, draw.startPoint[1].y, snapToX, snapToY))]

\* the gesture may be committed: it is in progress and long enough
longEnough_AtLeast(draw) ==
  ~ DistLt(draw.preview[1].startX, draw.preview[1].startY,
           draw.preview[1].endX, draw.preview[1].endY, MinLength)

longEnough(draw) ==
  DistGt(draw.preview[1].startX, draw.preview[1].startY,
         draw.preview[1].endX, draw.preview[1].endY, MinLength)

drawEnds(draw) == draw.isDrawing /\ draw.startPoint # None /\ draw.preview # None
drawCommits(draw) == drawEnds(draw) /\ longEnough(draw)

\* the existing vertex the new wall starts from; Null when one is created
startVertexOf(room, draw) ==
  IF Truthy(draw.startPoint[1].vertexId) /\ HasVertex(room, draw.startPoint[1].vertexId)
  THEN draw.startPoint[1].vertexId
  ELSE Null

\* the existing vertex the new wall ends at; Null when one is created
endVertexOf(room, draw) ==
  LET n == lastVertexNear(room, draw.preview[1].endX, draw.preview[1].endY,
                          endVertexSensitivity)
  IN  IF n # 0 THEN room.vertices[n].id ELSE Null

\* identifiers taken by a committed gesture: the wall, then the new vertices
drawIds(fp, draw, base) ==
  LET present == HasRoom(fp, draw.startPoint[1].roomId)
      room == FindRoom(fp, draw.startPoint[1].roomId)
      sOld == IF present THEN startVertexOf(room, draw) ELSE Null
      eOld == IF present THEN endVertexOf(room, draw) ELSE Null
      sId == IF sOld # Null THEN sOld ELSE base + 2
      eId == IF eOld # Null THEN eOld ELSE IF sOld # Null THEN base + 2 ELSE base + 3
  IN  [wallId |-> base + 1, startId |-> sId, endId |-> eId,
       startIsNew |-> (sOld = Null), endIsNew |-> (eOld = Null),
       count |-> IF ~present THEN 1
                 ELSE 1 + (IF sOld = Null THEN 1 ELSE 0) + (IF eOld = Null THEN 1 ELSE 0)]

newVerticesOf(draw, ids, isPortalVertex) ==
  (IF ids.startIsNew
   THEN <<Vertex(ids.startId, draw.preview[1].startX, draw.preview[1].startY, isPortalVertex)>>
   ELSE <<>>)
  \o
  (IF ids.endIsNew
   THEN <<Vertex(ids.endId, draw.preview[1].endX, draw.preview[1].endY, isPortalVertex)>>
   ELSE <<>>)

\* handleWallDrawingEnd: the plan with the wall added
wallDrawPlan(fp, draw, base) ==
  LET ids == drawIds(fp, draw, base)
  IN  MapRoom(fp, draw.startPoint[1].roomId, LAMBDA room :
        [room EXCEPT !.walls = Append(room.walls, Wall(ids.wallId, <<ids.startId, ids.endId>>)),
                     !.vertices = room.vertices \o newVerticesOf(draw, ids, FALSE)])

\* handlePortalDrawingEnd: the plan with the unconnected portal added
portalDrawPlan(fp, draw, base) ==
  LET ids == drawIds(fp, draw, base)
  IN  MapRoom(fp, draw.startPoint[1].roomId, LAMBDA room :
        [room EXCEPT !.walls = Append(room.walls,
                                 Portal(ids.wallId, <<ids.startId, ids.endId>>, Null, Null)),
                     !.vertices =
                        MapSeq(room.vertices, LAMBDA v :
                          IF v.id \in {ids.startId, ids.endId}
                          THEN [v EXCEPT !.isPortalVertex = TRUE] ELSE v)
                        \o newVerticesOf(draw, ids, TRUE)])

pendingOf(draw, base) ==
  [sourceRoomId |-> draw.startPoint[1].roomId,
   portalId |-> base + 1,
   vertices |-> <<[x |-> draw.preview[1].startX, y |-> draw.preview[1].startY],
                  [x |-> draw.preview[1].endX, y |-> draw.preview[1].endY]>>]

-----------------------------------------------------------------------------
(* Portal connection: handleRoomClickForPortalConnection *)

\* position in the target room of a point of the source room:
\* coordinate / source size * target size
rescale_Unscaled(coord, sourceSize, targetSize) == coord

rescale(coord, sourceSize, targetSize) ==
  RMul(RDiv(coord, R(sourceSize)), R(targetSize))

\* variant: the mirror portal is created but the source portal is left unlinked
connectPlan_OneWay(fp, pending, targetRoomId, base) ==
  LET sourceRoom == FindRoom(fp, pending.sourceRoomId)
      targetRoom == FindRoom(fp, targetRoomId)
      startPoint == pending.vertices[1]
      endPoint == pending.vertices[2]
  IN  [fp EXCEPT !.rooms = MapSeq(fp.rooms, LAMBDA room :
        IF room.id = targetRoomId
        THEN [room EXCEPT
                !.walls = Append(room.walls,
                            Portal(base + 1, <<base + 2, base + 3>>,
                                   pending.sourceRoomId, pending.portalId)),
                !.vertices = room.vertices \o
                  <<Vertex(base + 2,
                           rescale(startPoint.x, sourceRoom.width, targetRoom.width),
                           rescale(startPoint.y, sourceRoom.height, targetRoom.height), TRUE),
                    Vertex(base + 3,
                           rescale(endPoint.x, sourceRoom.width, targetRoom.width),
                           rescale(endPoint.y, sourceRoom.height, targetRoom.height), TRUE)>>]
        ELSE room)]

connectPlan(fp, pending, targetRoomId, base) ==
  LET sourceRoom == FindRoom(fp, pending.sourceRoomId)
      targetRoom == FindRoom(fp, targetRoomId)
      startPoint == pending.vertices[1]
      endPoint == pending.vertices[2]
      mirrorPortalId == base + 1
      mirrorStartVertexId == base + 2
      mirrorEndVertexId == base + 3
  IN  [fp EXCEPT !.rooms = MapSeq(fp.rooms, LAMBDA room :
        IF room.id = pending.sourceRoomId
        THEN [room EXCEPT !.walls = MapSeq(room.walls, LAMBDA wall :
                IF wall.id = pending.portalId
                THEN [wall EXCEPT !.connectedRoomId = targetRoomId,
                                  !.connectedPortalId = mirrorPortalId]
                ELSE wall)]
        ELSE IF room.id = targetRoomId
        THEN [room EXCEPT
                !.walls = Append(room.walls,
                            Portal(mirrorPortalId, <<mirrorStartVertexId, mirrorEndVertexId>>,
                                   pending.sourceRoomId, pending.portalId)),
                !.vertices = room.vertices \o
                  <<Vertex(mirrorStartVertexId,
                           rescale(startPoint.x, sourceRoom.width, targetRoom.width),
                           rescale(startPoint.y, sourceRoom.height, targetRoom.height), TRUE),
                    Vertex(mirrorEndVertexId,
                           rescale(endPoint.x, sourceRoom.width, targetRoom.width),
                           rescale(endPoint.y, sourceRoom.height, targetRoom.height), TRUE)>>]
        ELSE room)]

\* variant: the source portal is not looked up
connectionResolves_RoomsOnly(fp, pending, targetRoomId) ==
  /\ HasRoom(fp, pending.sourceRoomId)
  /\ HasRoom(fp, targetRoomId)

\* the pending connection still names an existing portal, and the target exists
connectionResolves(fp, pending, targetRoomId) ==
  /\ HasRoom(fp, pending.sourceRoomId)
  /\ HasRoom(fp, targetRoomId)
  /\ HasWall(FindRoom(fp, pending.sourceRoomId), pending.portalId)

handleRoomClickForPortalConnection(targetRoomId) ==
  LET pending == pendingPortalConnection[1]
  IN  IF pendingPortalConnection = None \/ targetRoomId = pending.sourceRoomId
      THEN /\ UNCHANGED <<planVars, pendingPortalConnection, isPortalPlacementActive, nextId>>
           /\ lastOp' = Op("handleRoomClickForPortalConnection", targetRoomId, "ignored")
      ELSE IF ~connectionResolves(floorPlan, pending, targetRoomId)
      THEN /\ pendingPortalConnection' = None
           /\ UNCHANGED <<planVars, isPortalPlacementActive, nextId>>
           /\ lastOp' = Op("handleRoomClickForPortalConnection", targetRoomId, "stale")
      ELSE /\ CanAlloc(3)
           /\ Commit(connectPlan(floorPlan, pending, targetRoomId, nextId))
           /\ nextId' = nextId + 3
           /\ pendingPortalConnection' = None
           /\ isPortalPlacementActive' = FALSE
           /\ lastOp' = Op("handleRoomClickForPortalConnection", targetRoomId, "connected")

-----------------------------------------------------------------------------
(* Event handlers of FloorPlanCanvas.tsx and shapes/Room.tsx *)

\* the pointer is over no room: the event target is the stage
OnEmpty(fp, wx, wy) ==
  \A i \in 1..Len(fp.rooms) :
     ~ InBounds(fp.rooms[i], wx - fp.rooms[i].x, wy - fp.rooms[i].y)

\* addRoom (button, or the 'n' key)
addRoom ==
  /\ isPlacingRoom' = ~isPlacingRoom
  /\ selectedId' = IF isPlacingRoom THEN selectedId ELSE Null
  /\ UNCHANGED <<planVars, selectedWallId, selectedVertexId, isWallPlacementActive,
                 isPortalPlacementActive, drawVars, nextId>>
  /\ UNCHANGED lastOp

\* handleDeselect with the stage as target
handleDeselect ==
  /\ UNCHANGED <<planVars, isPlacingRoom, wallDraw, portalDraw, nextId>>
  /\ IF \/ (isWallPlacementActive /\ wallDraw.isDrawing)
        \/ (isPortalPlacementActive /\ portalDraw.isDrawing)
     THEN /\ UNCHANGED <<selVars, isWallPlacementActive, isPortalPlacementActive,
                         pendingPortalConnection>>
          /\ UNCHANGED lastOp
     ELSE IF pendingPortalConnection # None
     THEN /\ pendingPortalConnection' = None
          /\ isPortalPlacementActive' = FALSE
          /\ UNCHANGED <<selVars, isWallPlacementActive>>
          /\ UNCHANGED lastOp
     ELSE /\ selectedId' = Null
          /\ selectedWallId' = Null
          /\ selectedVertexId' = Null
          /\ isWallPlacementActive' = FALSE
          /\ isPortalPlacementActive' = FALSE
          /\ UNCHANGED pendingPortalConnection
          /\ UNCHANGED lastOp

\* handleCanvasClick: mouse down on the stage at world position (wx, wy)
handleCanvasClick(wx, wy) ==
  LET gridX == FloorDiv(wx, floorPlan.gridSizeWidth)
      gridY == FloorDiv(wy, floorPlan.gridSizeHeight)
      selectedRoom == FindRoom(floorPlan, selectedId)
      inSelected == /\ Truthy(selectedId)
                    /\ HasRoom(floorPlan, selectedId)
                    /\ InBounds(selectedRoom, wx - selectedRoom.x, wy - selectedRoom.y)
  IN  IF isPlacingRoom
      THEN /\ placeRoomAtGridPosition(gridX, gridY)
           /\ isPlacingRoom' = FALSE
           /\ UNCHANGED <<selectedWallId, selectedVertexId, isWallPlacementActive,
                          isPortalPlacementActive, drawVars>>
      ELSE IF pendingPortalConnection # None
      THEN /\ UNCHANGED <<planVars, selVars, modeVars, drawVars, nextId>>
           /\ UNCHANGED lastOp
      ELSE IF isWallPlacementActive /\ inSelected
      THEN /\ wallDraw' = drawingStart(selectedRoom, wx, wy)
           /\ UNCHANGED <<planVars, selVars, modeVars, portalDraw,
                          pendingPortalConnection, nextId>>
           /\ lastOp' = Op("handleWallDrawingStart", selectedId, "gesture started")
      ELSE IF isPortalPlacementActive /\ inSelected
      THEN /\ portalDraw' = drawingStart(selectedRoom, wx, wy)
           /\ UNCHANGED <<planVars, selVars, modeVars, wallDraw,
                          pendingPortalConnection, nextId>>
           /\ lastOp' = Op("handlePortalDrawingStart", selectedId, "gesture started")
      ELSE /\ OnEmpty(floorPlan, wx, wy)
           /\ handleDeselect

\* handleCanvasMouseMove while a gesture is in progress
handleCanvasMouseMove(wx, wy) ==
  /\ wallDraw.isDrawing \/ portalDraw.isDrawing
  /\ wallDraw' = drawingMove(floorPlan, wallDraw, wx, wy)
  /\ portalDraw' = drawingMove(floorPlan, portalDraw, wx, wy)
  /\ UNCHANGED <<planVars, selVars, modeVars, pendingPortalConnection, nextId>>
  /\ UNCHANGED lastOp

\* handleStageMouseUp: handleWallDrawingEnd, then handlePortalDrawingEnd, both
\* reading the floor plan and history of the same render
handleStageMouseUp ==
  LET wallCommits == drawCommits(wallDraw)
      portalCommits == drawCommits(portalDraw)
      wallIds == IF wallCommits THEN drawIds(floorPlan, wallDraw, nextId).count ELSE 0
      portalBase == nextId + wallIds
      portalIds == IF portalCommits THEN drawIds(floorPlan, portalDraw, portalBase).count ELSE 0
  IN  /\ wallDraw.isDrawing \/ portalDraw.isDrawing
      /\ CanAlloc(wallIds + portalIds)
      /\ nextId' = nextId + wallIds + portalIds
      /\ IF portalCommits
         THEN Commit(portalDrawPlan(floorPlan, portalDraw, portalBase))
         ELSE IF wallCommits
         THEN Commit(wallDrawPlan(floorPlan, wallDraw, nextId))
         ELSE UNCHANGED planVars
      /\ wallDraw' = IF drawEnds(wallDraw) THEN NoDraw ELSE wallDraw
      /\ portalDraw' = IF drawEnds(portalDraw) THEN NoDraw ELSE portalDraw
      /\ isWallPlacementActive' = IF wallCommits THEN FALSE ELSE isWallPlacementActive
      /\ pendingPortalConnection' =
           IF portalCommits THEN Some(pendingOf(portalDraw, portalBase))
           ELSE pendingPortalConnection
      /\ UNCHANGED <<selVars, isPlacingRoom, isPortalPlacementActive>>
      /\ lastOp' = Op("handleStageMouseUp",
                      IF portalCommits THEN portalDraw.startPoint[1].roomId
                      ELSE IF wallCommits THEN wallDraw.startPoint[1].roomId ELSE Null,
                      IF portalCommits THEN "portal"
                      ELSE IF wallCommits THEN "wall" ELSE "discarded")

\* a click on a shape, or the end of a drag, follows the mouse up on the stage,
\* which ends any gesture (Stage onMouseUp): no gesture is in progress
NoGesture == ~wallDraw.isDrawing /\ ~portalDraw.isDrawing

\* handleSelect: click on a room
handleSelect(id) ==
  /\ NoGesture
  /\ HasRoom(floorPlan, id)
  /\ IF pendingPortalConnection # None
     THEN /\ handleRoomClickForPortalConnection(id)
          /\ UNCHANGED <<selVars, isPlacingRoom, isWallPlacementActive, wallDraw, portalDraw>>
     ELSE /\ isPlacingRoom' = FALSE
          /\ isWallPlacementActive' =
               IF isWallPlacementActive /\ selectedId # id THEN FALSE ELSE isWallPlacementActive
          /\ selectedWallId' = Null
          /\ selectedVertexId' = Null
          /\ selectedId' = id
          /\ UNCHANGED <<planVars, isPortalPlacementActive, drawVars, nextId>>
          /\ UNCHANGED lastOp

\* handleWallSelect: click on a wall or portal line
handleWallSelect(roomId, wallId) ==
  /\ NoGesture
  /\ HasRoom(floorPlan, roomId)
  /\ HasWall(FindRoom(floorPlan, roomId), wallId)
  /\ selectedId' = roomId
  /\ selectedWallId' = IF selectedWallId = wallId THEN Null ELSE wallId
  /\ selectedVertexId' = IF selectedWallId = wallId THEN selectedVertexId ELSE Null
  /\ UNCHANGED <<planVars, modeVars, drawVars, nextId>>
  /\ UNCHANGED lastOp

\* renderWallVertices: the vertex is drawn when a wall that uses it is selected
\* or uses the selected vertex
VertexShown(room, vertexId) ==
  \E i \in 1..Len(room.walls) :
     /\ Contains(room.walls[i].vertexIds, vertexId)
     /\ \/ room.walls[i].id = selectedWallId
        \/ Contains(room.walls[i].vertexIds, selectedVertexId)

\* handleVertexSelect: click on a drawn vertex
handleVertexSelect(roomId, vertexId) ==
  LET room == FindRoom(floorPlan, roomId)
      vertex == FindVertex(room, vertexId)
  IN  /\ NoGesture
      /\ HasRoom(floorPlan, roomId)
      /\ HasVertex(room, vertexId)
      /\ VertexShown(room, vertexId)
      /\ IF isWallPlacementActive /\ selectedId = roomId
         THEN /\ wallDraw' = [isDrawing |-> TRUE,
                              startPoint |-> Some(StartPoint(vertex.x, vertex.y, roomId, vertex.id)),
                              preview |-> Some(Preview(vertex.x, vertex.y, vertex.x, vertex.y))]
              /\ UNCHANGED selVars
              /\ lastOp' = Op("handleWallDrawingStart", roomId, "gesture started")
         ELSE /\ selectedId' = roomId
              /\ selectedVertexId' = IF selectedVertexId = vertexId THEN Null ELSE vertexId
              /\ selectedWallId' = IF selectedVertexId = vertexId THEN selectedWallId ELSE Null
              /\ UNCHANGED wallDraw
              /\ UNCHANGED lastOp
      /\ UNCHANGED <<planVars, modeVars, portalDraw, pendingPortalConnection, nextId>>

\* Room.tsx, vertex onDragEnd: the drop point is confined to the room
vertexDragEnd(roomId, vertexId, rawX, rawY) ==
  LET room == FindRoom(floorPlan, roomId)
      newX == RMax(R(0), RMin(R(room.width), R(rawX)))
      newY == RMax(R(0), RMin(R(room.height), R(rawY)))
  IN  /\ NoGesture
      /\ HasRoom(floorPlan, roomId)
      /\ HasVertex(room, vertexId)
      /\ VertexShown(room, vertexId)
      /\ ~ (isWallPlacementActive \/ isPortalPlacementActive)
      /\ handleVertexDrag(roomId, vertexId, newX, newY)

\* Room.tsx, wall onDblClick with Ctrl or Cmd held
wallDblClick(roomId, wallId) ==
  /\ NoGesture
  /\ HasRoom(floorPlan, roomId)
  /\ HasWall(FindRoom(floorPlan, roomId), wallId)
  /\ handleWallDelete(roomId, wallId)
  /\ UNCHANGED <<selectedId, selectedVertexId, modeVars, drawVars, nextId>>

roomDragEnd_SameCellRecords(roomId, rawX, rawY) ==
  LET room == FindRoom(floorPlan, roomId)
      snappedX == RoundDiv(rawX, floorPlan.gridSizeWidth) * floorPlan.gridSizeWidth
      snappedY == RoundDiv(rawY, floorPlan.gridSizeHeight) * floorPlan.gridSizeHeight
  IN  /\ NoGesture
      /\ HasRoom(floorPlan, roomId)
      /\ ~ (isWallPlacementActive \/ isPortalPlacementActive)
      /\ IF snappedX # room.x \/ snappedY # room.y
         THEN handleRoomDragEnd(roomId, snappedX, snappedY)
         ELSE /\ UNCHANGED <<floorPlan, selVars, modeVars, drawVars, nextId>>
              /\ history' = Append(SubSeq(history, 1, historyIndex + 1), floorPlan)
              /\ historyIndex' = Len(history') - 1
              /\ lastOp' = OpArg("roomDragEnd", roomId, "not moved", <<rawX, rawY>>)

\* Room.tsx, room onDragEnd: snap, and report the drop only if the room moved
roomDragEnd(roomId, rawX, rawY) ==
  LET room == FindRoom(floorPlan, roomId)
      snappedX == RoundDiv(rawX, floorPlan.gridSizeWidth) * floorPlan.gridSizeWidth
      snappedY == RoundDiv(rawY, floorPlan.gridSizeHeight) * floorPlan.gridSizeHeight
  IN  /\ NoGesture
      /\ HasRoom(floorPlan, roomId)
      /\ ~ (isWallPlacementActive \/ isPortalPlacementActive)
      /\ IF snappedX # room.x \/ snappedY # room.y
         THEN handleRoomDragEnd(roomId, snappedX, snappedY)
         ELSE /\ UNCHANGED <<planVars, selVars, modeVars, drawVars, nextId>>
              /\ lastOp' = OpArg("roomDragEnd", roomId, "not moved", <<rawX, rawY>>)

\* togglePortalPlacement (button shown while a room is selected)
togglePortalPlacement ==
  /\ Truthy(selectedId)
  /\ portalDraw' = NoDraw
  /\ pendingPortalConnection' = None
  /\ isPortalPlacementActive' = ~isPortalPlacementActive
  /\ isPlacingRoom' = FALSE
  /\ isWallPlacementActive' = FALSE
  /\ UNCHANGED <<planVars, selVars, wallDraw, nextId>>
  /\ UNCHANGED lastOp

\* toggleWallPlacement (button shown while a room is selected)
toggleWallPlacement ==
  /\ Truthy(selectedId)
  /\ isWallPlacementActive' = ~isWallPlacementActive
  /\ isPlacingRoom' = FALSE
  /\ UNCHANGED <<planVars, selVars, isPortalPlacementActive, drawVars, nextId>>
  /\ UNCHANGED lastOp

\* variant: Delete on a vertex that more than one wall uses goes on to delete the room
keyDelete_FallsThrough ==
  LET room == FindRoom(floorPlan, selectedId)
      users == {i \in 1..Len(room.walls) : Contains(room.walls[i].vertexIds, selectedVertexId)}
  IN  /\ Truthy(selectedId)
      /\ UNCHANGED <<modeVars, drawVars, nextId>>
      /\ IF Truthy(selectedWallId)
         THEN /\ handleWallDelete(selectedId, selectedWallId)
              /\ UNCHANGED <<selectedId, selectedVertexId>>
         ELSE IF Truthy(selectedVertexId) /\ Cardinality(users) <= 1
         THEN /\ HasRoom(floorPlan, selectedId)
              /\ UNCHANGED <<selectedId, selectedVertexId>>
              /\ IF Cardinality(users) = 1
                 THEN handleWallDelete(selectedId, room.walls[CHOOSE i \in users : TRUE].id)
                 ELSE /\ UNCHANGED <<planVars, selectedWallId>>
                      /\ lastOp' = Op("keyDelete", selectedId, "unused vertex")
         ELSE /\ deleteRoom(selectedId)
              /\ UNCHANGED <<selectedWallId, selectedVertexId>>

\* handleKeyDown, Delete or Backspace
keyDelete ==
  LET room == FindRoom(floorPlan, selectedId)
      users == {i \in 1..Len(room.walls) : Contains(room.walls[i].vertexIds, selectedVertexId)}
  IN  /\ Truthy(selectedId)
      /\ UNCHANGED <<modeVars, drawVars, nextId>>
      /\ IF Truthy(selectedWallId)
         THEN /\ handleWallDelete(selectedId, selectedWallId)
              /\ UNCHANGED <<selectedId, selectedVertexId>>
         ELSE IF Truthy(selectedVertexId)
         THEN /\ HasRoom(floorPlan, selectedId)
              /\ UNCHANGED <<selectedId, selectedVertexId>>
              /\ IF Cardinality(users) = 1
                 THEN handleWallDelete(selectedId, room.walls[CHOOSE i \in users : TRUE].id)
                 ELSE /\ UNCHANGED <<planVars, selectedWallId>>
                      /\ lastOp' = Op("keyDelete", selectedId,
                                      IF Cardinality(users) > 1 THEN "multi-wall vertex"
                                      ELSE "unused vertex")
         ELSE /\ deleteRoom(selectedId)
              /\ UNCHANGED <<selectedWallId, selectedVertexId>>

\* handleKeyDown, Escape: the placement modes are left and, if portal
\* placement was active, the pending connection is dropped; the state of a
\* draw gesture is not touched.  lastOp notes an Escape that arrives while a
\* gesture is in progress.
keyEscape ==
  /\ isPlacingRoom' = FALSE
  /\ isWallPlacementActive' = FALSE
  /\ isPortalPlacementActive' = FALSE
  /\ pendingPortalConnection' =
       IF isPortalPlacementActive THEN None ELSE pendingPortalConnection
  /\ UNCHANGED <<planVars, selVars, wallDraw, portalDraw, nextId>>
  /\ lastOp' = IF wallDraw.isDrawing \/ portalDraw.isDrawing
               THEN Op("keyEscape", Null, "during gesture")
               ELSE lastOp

-----------------------------------------------------------------------------
(* Export and import: App.tsx handleExport, importFloorPlan;                *)
(* FloorPlanToolbar.tsx handleFileChange                                    *)

\* JSON values.  An object is the sequence of its <<key, value>> members.  The
\* values JavaScript adds when it reads them: undefined (a missing property)
\* and NaN.
JNull == [t |-> "null"]
JNum(n) == [t |-> "number", v |-> n]
JStr(s) == [t |-> "string", v |-> s]
JBool(b) == [t |-> "boolean", v |-> b]
JArr(elems) == [t |-> "array", v |-> elems]
JObj(members) == [t |-> "object", v |-> members]
Undefined == [t |-> "undefined"]
NaN == [t |-> "NaN"]

\* JSON.stringify of the editor's data: an absent link is null, a flag that
\* is not set is left out
JsonId(id) == IF id = Null THEN JNull ELSE JStr(id)

JsonVertex(vertex) ==
  JObj(<< <<"id", JStr(vertex.id)>>, <<"x", JNum(vertex.x)>>, <<"y", JNum(vertex.y)>> >>
       \o (IF vertex.isPortalVertex THEN << <<"isPortalVertex", JBool(TRUE)>> >> ELSE <<>>))

JsonWall(wall) ==
  JObj(<< <<"id", JStr(wall.id)>>,
          <<"vertexIds", JArr(MapSeq(wall.vertexIds, LAMBDA id : JStr(id)))>> >>
       \o (IF wall.isPortal
           THEN << <<"isPortal", JBool(TRUE)>>,
                   <<"connectedRoomId", JsonId(wall.connectedRoomId)>>,
                   <<"connectedPortalId", JsonId(wall.connectedPortalId)>> >>
           ELSE <<>>))

JsonRoom(room) ==
  JObj(<< <<"id", JStr(room.id)>>,
          <<"x", JNum(room.x)>>, <<"y", JNum(room.y)>>,
          <<"width", JNum(room.width)>>, <<"height", JNum(room.height)>>,
          <<"portals", JArr(MapSeq(room.portals, LAMBDA w : JsonWall(w)))>>,
          <<"walls", JArr(MapSeq(room.walls, LAMBDA w : JsonWall(w)))>>,
          <<"vertices", JArr(MapSeq(room.vertices, LAMBDA v : JsonVertex(v)))>>,
          <<"gridX", JNum(room.gridX)>>, <<"gridY", JNum(room.gridY)>> >>)

JsonFloorPlan(fp) ==
  JObj(<< <<"gridSizeWidth", JNum(fp.gridSizeWidth)>>,
          <<"gridSizeHeight", JNum(fp.gridSizeHeight)>>,
          <<"rooms", JArr(MapSeq(fp.rooms, LAMBDA r : JsonRoom(r)))>> >>)

\* value.key for a value that is neither null nor undefined
Member(value, key) ==
  IF value.t = "object" /\ \E i \in 1..Len(value.v) : value.v[i][1] = key
  THEN value.v[LastIndex(value.v, LAMBDA m : m[1] = key)][2]
  ELSE Undefined

\* the values that `||` passes over
Falsy(value) ==
  \/ value.t \in {"undefined", "null", "NaN"}
  \/ value.t = "number" /\ value.v = 0
  \/ value.t = "boolean" /\ ~ value.v

\* variant: the default is taken whatever the value
OrElse_AlwaysDefault(value, default) == default

OrElse(value, default) == IF Falsy(value) THEN default ELSE value

\* Math.floor(a / b) for numbers a and b # 0; null counts as 0 and a value
\* that is no number gives NaN
FloorOfQuotient(a, b) ==
  IF a.t = "null" /\ b.t = "number" THEN JNum(0)
  ELSE IF a.t = "number" /\ b.t = "number" THEN JNum(FloorDiv(a.v, b.v))
  ELSE NaN

\* { ...value, key: member }: the own members of an object, none for a number
\* or a boolean, with the member set
SpreadWith(value, key, member) ==
  LET own == IF value.t = "object" THEN value.v ELSE <<>>
      others == SelectSeq(own, LAMBDA m : m[1] # key)
  IN  JObj(Append(others, <<key, member>>))

\* importFloorPlan throws when it reads a property of null
importThrows(imported) ==
  \/ imported.t \in {"null", "undefined"}
  \/ /\ Member(imported, "rooms").t = "array"
     /\ \E i \in 1..Len(Member(imported, "rooms").v) :
           Member(imported, "rooms").v[i].t = "null"

\* importFloorPlan: newFloorPlan as a JavaScript object
importedPlan(imported) ==
  LET gridSizeWidth == OrElse(Member(imported, "gridSizeWidth"), JNum(DefaultGridSize))
      gridSizeHeight == OrElse(Member(imported, "gridSizeHeight"), JNum(DefaultGridSize))
      rooms == Member(imported, "rooms")
  IN  JObj(<< <<"gridSizeWidth", gridSizeWidth>>,
              <<"gridSizeHeight", gridSizeHeight>>,
              <<"rooms",
                IF rooms.t = "array"
                THEN JArr(MapSeq(rooms.v, LAMBDA room :
                       SpreadWith(
                         SpreadWith(room, "gridX",
                           OrElse(Member(room, "gridX"),
                                  FloorOfQuotient(Member(room, "x"), gridSizeWidth))),
                         "gridY",
                         OrElse(Member(room, "gridY"),
                                FloorOfQuotient(Member(room, "y"), gridSizeHeight)))))
                ELSE JArr(<<>>)>> >>)

\* The editor's view of a JavaScript object: a missing link or flag reads as
\* Null or FALSE, a missing list as empty, and a value that is no number as
\* NotANumber.
NotANumber == -999999

NumberOf(value) == IF value.t = "number" THEN value.v ELSE NotANumber
IdOf(value) == IF value.t = "string" THEN value.v ELSE Null
ListOf(value) == IF value.t = "array" THEN value.v ELSE <<>>

VertexOf(value) ==
  Vertex(IdOf(Member(value, "id")),
         NumberOf(Member(value, "x")), NumberOf(Member(value, "y")),
         Member(value, "isPortalVertex") = JBool(TRUE))

WallOf(value) ==
  [id |-> IdOf(Member(value, "id")),
   vertexIds |-> MapSeq(ListOf(Member(value, "vertexIds")), LAMBDA id : IdOf(id)),
   isPortal |-> Member(value, "isPortal") = JBool(TRUE),
   connectedRoomId |-> IdOf(Member(value, "connectedRoomId")),
   connectedPortalId |-> IdOf(Member(value, "connectedPortalId"))]

RoomOf(value) ==
  [id |-> IdOf(Member(value, "id")),
   x |-> NumberOf(Member(value, "x")), y |-> NumberOf(Member(value, "y")),
   width |-> NumberOf(Member(value, "width")),
   height |-> NumberOf(Member(value, "height")),
   portals |-> MapSeq(ListOf(Member(value, "portals")), LAMBDA w : WallOf(w)),
   walls |-> MapSeq(ListOf(Member(value, "walls")), LAMBDA w : WallOf(w)),
   vertices |-> MapSeq(ListOf(Member(value, "vertices")), LAMBDA v : VertexOf(v)),
   gridX |-> NumberOf(Member(value, "gridX")),
   gridY |-> NumberOf(Member(value, "gridY"))]

FloorPlanOf(value) ==
  [rooms |-> MapSeq(ListOf(Member(value, "rooms")), LAMBDA r : RoomOf(r)),
   gridSizeWidth |-> NumberOf(Member(value, "gridSizeWidth")),
   gridSizeHeight |-> NumberOf(Member(value, "gridSizeHeight"))]

\* a file: text that JSON.parse rejects, or the value it parses to
Unparsable == [parses |-> FALSE, value |-> Undefined]
Parsed(value) == [parses |-> TRUE, value |-> value]

\* handleExport: the file written for the current floor plan
handleExport == Parsed(JsonFloorPlan(floorPlan))

\* handleFileChange, reader.onload: JSON.parse, then importFloorPlan, both
\* inside one try; the catch branch only alerts
handleFileChange(file) ==
  /\ UNCHANGED <<selVars, modeVars, drawVars, nextId>>
  /\ IF ~ file.parses \/ importThrows(file.value)
     THEN /\ UNCHANGED planVars
          /\ lastOp' = Op("importFloorPlan", Null, "failed")
     ELSE /\ Commit(FloorPlanOf(importedPlan(file.value)))
          /\ lastOp' = Op("importFloorPlan", Null, "imported")

\* createNewProject
createNewProject(gridSizeWidth, gridSizeHeight) ==
  /\ Commit([rooms |-> <<>>, gridSizeWidth |-> gridSizeWidth,
             gridSizeHeight |-> gridSizeHeight])
  /\ UNCHANGED <<selVars, modeVars, drawVars, nextId>>
  /\ lastOp' = Op("createNewProject", Null, "created")

-----------------------------------------------------------------------------
(* Portal colours: utils/portalUtils.ts getPortalColor                      *)

\* Identifiers are strings here: sequences of character codes, the empty
\* sequence for a missing (null) connectedPortalId.
\* a < b on strings: code unit by code unit, a proper prefix first
StrLess(a, b) ==
  \E k \in 1..(Len(a) + 1) :
     /\ \A j \in 1..(k - 1) : j <= Len(b) /\ a[j] = b[j]
     /\ \/ k = Len(a) + 1 /\ k <= Len(b)
        \/ k <= Len(a) /\ k <= Len(b) /\ a[k] < b[k]

\* variant: the key is always the portal's own id
portalKey_OwnId(portal) == portal.id

\* the cache key: the portal's id, or the smaller of it and connectedPortalId
portalKey(portal) ==
  IF portal.connectedPortalId # <<>>
  THEN IF StrLess(portal.id, portal.connectedPortalId)
       THEN portal.id ELSE portal.connectedPortalId
  ELSE portal.id

\* hash << 5 on 32-bit integers
ShiftLeft5(hash) ==
  LET low == hash % 134217728
  IN  IF low < 67108864 THEN low * 32
      ELSE (low - 67108864) * 32 - 2147483647 - 1

\* a % b of JavaScript: the sign of a
Remainder(a, b) == IF a >= 0 THEN a % b ELSE - ((- a) % b)

RECURSIVE hashFrom(_, _, _)
\* the loop over charCodeAt(i), from character i on
hashFrom(str, i, hash) ==
  IF i > Len(str) THEN hash
  ELSE hashFrom(str, i + 1, str[i] + (ShiftLeft5(hash) - hash))

\* `hsl(${hue}, 80%, 55%)` as its three numbers
colorOf(key) == <<Abs(Remainder(hashFrom(key, 1, 0), 360)), 80, 55>>

\* what getPortalColor returns, and the cache it leaves
colorReturned(cache, portal) ==
  IF portalKey(portal) \in DOMAIN cache
  THEN cache[portalKey(portal)]
  ELSE colorOf(portalKey(portal))

cacheAfter(cache, portal) ==
  IF portalKey(portal) \in DOMAIN cache
  THEN cache
  ELSE [k \in DOMAIN cache \cup {portalKey(portal)} |->
          IF k \in DOMAIN cache THEN cache[k] ELSE colorOf(k)]

\* getPortalColor, called when a portal is drawn
getPortalColor(portal) ==
  /\ portalColorCache' = cacheAfter(portalColorCache, portal)
  /\ lastOp' = OpArg("getPortalColor", Null,
                     IF portalKey(portal) \in DOMAIN portalColorCache
                     THEN "cached" ELSE "computed",
                     <<portal.id, portal.connectedPortalId,
                       colorReturned(portalColorCache, portal)>>)
  /\ UNCHANGED <<planVars, selVars, modeVars, drawVars, nextId>>

-----------------------------------------------------------------------------
(* Portal utilities: utils/portalUtils.ts createPortalPair,                  *)
(* createPortalFromWall.  They return a value and write no state; the value  *)
(* returned is kept in lastOp.arg.  Room.portalIds is not modelled.          *)

\* createPortalPair: the two portals, with the identifiers base + 1, base + 2
createPortalPair(sourceRoom, targetRoom, sourceVertexIds, targetVertexIds, base) ==
  [sourcePortal |-> Portal(base + 1, sourceVertexIds, targetRoom.id, base + 2),
   targetPortal |-> Portal(base + 2, targetVertexIds, sourceRoom.id, base + 1)]

\* createPortalFromWall: the floor plan returned; identifiers from base + 1
createPortalFromWall(wall, sourceRoom, targetRoom, fp, createCorrespondingPortal, base) ==
  LET portalId == base + 1
      found == SelectSeq(wall.vertexIds, LAMBDA id : HasVertex(sourceRoom, id))
      targetVertices == [k \in 1..Len(found) |->
                           Vertex(portalId + k, FindVertex(sourceRoom, found[k]).x,
                                  FindVertex(sourceRoom, found[k]).y, TRUE)]
      correspondingId == portalId + Len(found) + 1
      correspondingPortal ==
        Portal(correspondingId, [k \in 1..Len(found) |-> portalId + k],
               sourceRoom.id, portalId)
      withPortal(linked) ==
        MapRoom(fp, sourceRoom.id, LAMBDA r :
          [r EXCEPT !.walls = MapSeq(r.walls, LAMBDA w :
             IF w.id = wall.id
             THEN [wall EXCEPT !.id = portalId,
                               !.isPortal = TRUE,
                               !.connectedRoomId = targetRoom.id,
                               !.connectedPortalId = linked]
             ELSE w)])
  IN  IF ~ HasRoom(fp, sourceRoom.id) THEN fp
      ELSE IF ~ HasRoom(fp, targetRoom.id) THEN fp
      ELSE IF ~ HasWall(FindRoom(fp, sourceRoom.id), wall.id) THEN fp
      ELSE IF ~ createCorrespondingPortal THEN withPortal(Null)
      ELSE IF Len(found) < 2 THEN fp
      ELSE MapRoom(withPortal(correspondingId), targetRoom.id, LAMBDA r :
             [r EXCEPT !.vertices = r.vertices \o targetVertices,
                       !.walls = Append(r.walls, correspondingPortal)])

\* a call of createPortalPair on two rooms of the plan
callCreatePortalPair(sourceId, targetId, sourceVertexIds, targetVertexIds) ==
  /\ HasRoom(floorPlan, sourceId)
  /\ HasRoom(floorPlan, targetId)
  /\ CanAlloc(2)
  /\ nextId' = nextId + 2
  /\ UNCHANGED <<planVars, selVars, modeVars, drawVars>>
  /\ lastOp' = OpArg("createPortalPair", sourceId, "created",
                     LET pair == createPortalPair(FindRoom(floorPlan, sourceId),
                                                  FindRoom(floorPlan, targetId),
                                                  sourceVertexIds, targetVertexIds, nextId)
                     IN  <<pair.sourcePortal, pair.targetPortal>>)

\* a call of createPortalFromWall on a wall and two rooms of the plan
callCreatePortalFromWall(wallRoomId, wallId, sourceId, targetId, createCorrespondingPortal) ==
  /\ HasRoom(floorPlan, wallRoomId)
  /\ HasWall(FindRoom(floorPlan, wallRoomId), wallId)
  /\ HasRoom(floorPlan, sourceId)
  /\ HasRoom(floorPlan, targetId)
  /\ CanAlloc(4)
  /\ nextId' = nextId + 4
  /\ UNCHANGED <<planVars, selVars, modeVars, drawVars>>
  /\ lastOp' = OpArg("createPortalFromWall", sourceId,
                     IF createCorrespondingPortal THEN "pair" ELSE "single",
                     <<createPortalFromWall(FindWall(FindRoom(floorPlan, wallRoomId), wallId),
                                            FindRoom(floorPlan, sourceId),
                                            FindRoom(floorPlan, targetId),
                                            floorPlan, createCorrespondingPortal, nextId)>>)

-----------------------------------------------------------------------------
(* Initial state: the default floor plan, recorded as the first history entry *)

InitialFloorPlan ==
  [gridSizeWidth |-> DefaultGridSize, gridSizeHeight |-> DefaultGridSize, rooms |-> <<>>]

Init ==
  /\ floorPlan = InitialFloorPlan
  /\ history = <<InitialFloorPlan>>
  /\ historyIndex = 0
  /\ selectedId = Null
  /\ selectedWallId = Null
  /\ selectedVertexId = Null
  /\ isPlacingRoom = FALSE
  /\ isWallPlacementActive = FALSE
  /\ isPortalPlacementActive = FALSE
  /\ wallDraw = NoDraw
  /\ portalDraw = NoDraw
  /\ pendingPortalConnection = None
  /\ nextId = 0
  /\ portalColorCache = <<>>
  /\ lastOp = Op("init", Null, "init")

\* the identifiers handed out so far
Ids == 1..nextId

-----------------------------------------------------------------------------
(* Rooms on the grid: placement, drag, resize, deletion, undo and redo *)

\* pointer positions (world): cells (0,0) and (-1,0)
RoomClicks == {<<10, 10>>, <<-50, 10>>}
\* room drop positions (world), before snapping
RoomDrops == {<<20, 0>>, <<-60, 0>>}
\* sizes asked of updateRoomSize
RoomSizes == {<<50, 100>>, <<200, 200>>}

RoomEvents ==
  \/ addRoom
  \/ \E p \in RoomClicks : handleCanvasClick(p[1], p[2])
  \/ \E id \in Ids : handleSelect(id)
  \/ \E id \in Ids, p \in RoomDrops : roomDragEnd(id, p[1], p[2])
  \/ \E id \in Ids, sz \in RoomSizes : updateRoomSize(id, sz[1], sz[2])
  \/ keyDelete
  \/ handleUndo
  \/ handleRedo

NextRooms ==
  /\ RoomEvents
  /\ nextId' <= MaxRooms
  /\ Len(history') <= MaxRoomsHistory
  /\ UNCHANGED portalColorCache

SpecRooms == Init /\ [][NextRooms]_vars

-----------------------------------------------------------------------------
(* Walls of one room: draw gestures, selection, vertex drag, deletion, undo *)

\* pointer positions (world) in the room at cell (0,0): mouse down, mouse move
\* and the drop of a dragged vertex
WallDowns == {<<10, 10>>}
WallMoves == {<<10, 50>>, <<50, 50>>}
WallDrops == {<<10, 50>>}

WallEvents ==
  \/ addRoom
  \/ \E p \in WallDowns : handleCanvasClick(p[1], p[2])
  \/ \E p \in WallMoves : handleCanvasMouseMove(p[1], p[2])
  \/ handleStageMouseUp
  \/ toggleWallPlacement
  \/ \E r \in Ids, w \in Ids : handleWallSelect(r, w)
  \/ \E r \in Ids, v \in Ids, p \in WallDrops : vertexDragEnd(r, v, p[1], p[2])
  \/ \E r \in Ids, w \in Ids : wallDblClick(r, w)
  \/ handleUndo
  \/ handleRedo

NextWalls ==
  /\ WallEvents
  /\ nextId' <= MaxWallIds
  /\ Len(history') <= MaxWallsHistory
  /\ Len(floorPlan'.rooms) <= 1
  /\ UNCHANGED portalColorCache

SpecWalls == Init /\ [][NextWalls]_vars

-----------------------------------------------------------------------------
(* Two rooms and a portal pair: draw and connect, then resize or delete *)

\* pointer positions (world): mouse down in cells (0,0) and (1,0), mouse move
\* in cell (1,0), the drop of a dragged vertex (room-local), the size asked
PortalDowns == {<<10, 10>>, <<110, 10>>}
PortalMoves == {<<110, 50>>}
PortalDrops == {<<10, 50>>, <<50, 50>>}
PortalSizes == {<<50, 100>>}

PortalEvents ==
  \/ addRoom
  \/ \E p \in PortalDowns : handleCanvasClick(p[1], p[2])
  \/ \E p \in PortalMoves : handleCanvasMouseMove(p[1], p[2])
  \/ handleStageMouseUp
  \/ togglePortalPlacement
  \/ \E id \in Ids : handleSelect(id)
  \/ \E id \in Ids, sz \in PortalSizes : updateRoomSize(id, sz[1], sz[2])
  \/ keyDelete

Next ==
  /\ PortalEvents
  /\ nextId' <= MaxPortalIds
  /\ Len(floorPlan'.rooms) <= 2
  /\ Len(history') <= MaxHistory
  /\ UNCHANGED portalColorCache

Spec == Init /\ [][Next]_vars

-----------------------------------------------------------------------------
(* Two rooms and a portal pair: draw and connect, cancel, drag the endpoints *)

DragEvents ==
  \/ addRoom
  \/ \E p \in PortalDowns : handleCanvasClick(p[1], p[2])
  \/ \E p \in PortalMoves : handleCanvasMouseMove(p[1], p[2])
  \/ handleStageMouseUp
  \/ togglePortalPlacement
  \/ \E id \in Ids : handleSelect(id)
  \/ \E r \in Ids, w \in Ids : handleWallSelect(r, w)
  \/ \E r \in Ids, v \in Ids, p \in PortalDrops : vertexDragEnd(r, v, p[1], p[2])
  \/ keyEscape

NextDrag ==
  /\ DragEvents
  /\ nextId' <= MaxPortalIds
  /\ Len(floorPlan'.rooms) <= 2
  /\ Len(history') <= MaxHistory
  /\ UNCHANGED portalColorCache

SpecDrag == Init /\ [][NextDrag]_vars

-----------------------------------------------------------------------------
(* Walls of one room that share vertices: draw, select, drag and merge *)

MergeEvents ==
  \/ addRoom
  \/ \E p \in WallDowns : handleCanvasClick(p[1], p[2])
  \/ \E p \in WallMoves : handleCanvasMouseMove(p[1], p[2])
  \/ handleStageMouseUp
  \/ toggleWallPlacement
  \/ \E r \in Ids, w \in Ids : handleWallSelect(r, w)
  \/ \E r \in Ids, v \in Ids, p \in WallDrops : vertexDragEnd(r, v, p[1], p[2])

NextMerge ==
  /\ MergeEvents
  /\ nextId' <= MaxMergeIds
  /\ Len(history') <= MaxWallsHistory
  /\ Len(floorPlan'.rooms) <= 1
  /\ UNCHANGED portalColorCache

SpecMerge == Init /\ [][NextMerge]_vars

-----------------------------------------------------------------------------
(* Two rooms and a portal pair: draw and connect, select a portal, delete *)

PairEvents ==
  \/ addRoom
  \/ \E p \in PortalDowns : handleCanvasClick(p[1], p[2])
  \/ \E p \in PortalMoves : handleCanvasMouseMove(p[1], p[2])
  \/ handleStageMouseUp
  \/ togglePortalPlacement
  \/ \E id \in Ids : handleSelect(id)
  \/ \E r \in Ids, w \in Ids : handleWallSelect(r, w)
  \/ keyDelete

NextPair ==
  /\ PairEvents
  /\ nextId' <= MaxPairIds
  /\ Len(history') <= MaxPairHistory
  /\ Len(floorPlan'.rooms) <= 2
  /\ UNCHANGED portalColorCache

SpecPair == Init /\ [][NextPair]_vars

-----------------------------------------------------------------------------
(* One room resized again and again: the history up to and past its cap *)

HistoryEvents ==
  \/ addRoom
  \/ \E p \in WallDowns : handleCanvasClick(p[1], p[2])
  \/ \E id \in Ids, sz \in RoomSizes : updateRoomSize(id, sz[1], sz[2])
  \/ handleUndo
  \/ handleRedo

NextHistory ==
  /\ HistoryEvents
  /\ nextId' <= 1
  /\ UNCHANGED portalColorCache

SpecHistory == Init /\ [][NextHistory]_vars

-----------------------------------------------------------------------------
(* One room: wall and portal gestures of several lengths, Escape, release *)

\* pointer positions (world) of the mouse move: 5, 10 and 40 units from the
\* mouse down at (10, 10)
CancelMoves == {<<13, 14>>, <<10, 20>>, <<10, 50>>}

CancelEvents ==
  \/ addRoom
  \/ \E p \in WallDowns : handleCanvasClick(p[1], p[2])
  \/ \E p \in CancelMoves : handleCanvasMouseMove(p[1], p[2])
  \/ handleStageMouseUp
  \/ toggleWallPlacement
  \/ togglePortalPlacement
  \/ \E id \in Ids : handleSelect(id)
  \/ keyEscape

NextCancel ==
  /\ CancelEvents
  /\ nextId' <= MaxCancelIds
  /\ Len(history') <= MaxCancelHistory
  /\ Len(floorPlan'.rooms) <= 1
  /\ UNCHANGED portalColorCache

SpecCancel == Init /\ [][NextCancel]_vars

-----------------------------------------------------------------------------
(* Walls of one room that share vertices: draw, select a wall or a vertex, delete *)

DeleteEvents ==
  \/ addRoom
  \/ \E p \in WallDowns : handleCanvasClick(p[1], p[2])
  \/ \E p \in WallMoves : handleCanvasMouseMove(p[1], p[2])
  \/ handleStageMouseUp
  \/ toggleWallPlacement
  \/ \E r \in Ids, w \in Ids : handleWallSelect(r, w)
  \/ \E r \in Ids, v \in Ids : handleVertexSelect(r, v)
  \/ keyDelete

NextDelete ==
  /\ DeleteEvents
  /\ nextId' <= MaxDeleteIds
  /\ Len(history') <= MaxDeleteHistory
  /\ Len(floorPlan'.rooms) <= 1
  /\ UNCHANGED portalColorCache

SpecDelete == Init /\ [][NextDelete]_vars

\* the events of the wall specification, with room for two deletions after a
\* wall has been drawn across an undo and a redo
NextOrphan ==
  /\ WallEvents
  /\ nextId' <= MaxWallIds
  /\ Len(history') <= MaxOrphanHistory
  /\ Len(floorPlan'.rooms) <= 1
  /\ UNCHANGED portalColorCache

SpecOrphan == Init /\ [][NextOrphan]_vars

\* the events of the wall specification, with identifiers for a second wall
\* that shares no vertex with the first
NextReuse ==
  /\ WallEvents
  /\ nextId' <= MaxReuseIds
  /\ Len(history') <= MaxReuseHistory
  /\ Len(floorPlan'.rooms) <= 1
  /\ UNCHANGED portalColorCache

SpecReuse == Init /\ [][NextReuse]_vars

\* one room with walls and portals: the room is added once, either placement
\* mode, gestures from (10,10), vertices dropped at (10,50)
FlagEvents ==
  \/ floorPlan.rooms = <<>> /\ addRoom
  \/ \E p \in WallDowns : handleCanvasClick(p[1], p[2])
  \/ \E p \in WallMoves : handleCanvasMouseMove(p[1], p[2])
  \/ handleStageMouseUp
  \/ toggleWallPlacement
  \/ togglePortalPlacement
  \/ \E r \in Ids, w \in Ids : handleWallSelect(r, w)
  \/ \E r \in Ids, v \in Ids, p \in WallDrops : vertexDragEnd(r, v, p[1], p[2])

NextFlag ==
  /\ FlagEvents
  /\ nextId' <= MaxFlagIds
  /\ Len(history') <= MaxFlagHistory
  /\ Len(floorPlan'.rooms) <= 1
  /\ UNCHANGED portalColorCache

SpecFlag == Init /\ [][NextFlag]_vars

\* a portal pair whose counterpart then disappears: the other room is deleted,
\* or the counterpart collapses when one of its endpoints is dropped on the
\* other; an endpoint of the remaining portal is then dragged.  The drops
\* (room-local): a free point, and the far endpoint of the portal
DanglingDrops == {<<10, 50>>, <<100, 50>>}

\* the vertex is an endpoint of a portal of the room that has both links set
LinkedAt(fp, roomId, vertexId) ==
  /\ HasRoom(fp, roomId)
  /\ \E i \in 1..Len(FindRoom(fp, roomId).walls) :
        LET w == FindRoom(fp, roomId).walls[i]
        IN  /\ w.isPortal
            /\ Contains(w.vertexIds, vertexId)
            /\ Truthy(w.connectedRoomId) /\ Truthy(w.connectedPortalId)

\* no room of the plan has a wall
NoWalls(fp) == \A i \in 1..Len(fp.rooms) : fp.rooms[i].walls = <<>>

\* rooms are added while there are fewer than two, portal placement is turned
\* on or off while nothing has been drawn, and only endpoints of linked
\* portals are dragged
DanglingEvents ==
  \/ Len(floorPlan.rooms) < 2 /\ addRoom
  \/ \E p \in PortalDowns : handleCanvasClick(p[1], p[2])
  \/ \E p \in PortalMoves : handleCanvasMouseMove(p[1], p[2])
  \/ handleStageMouseUp
  \/ NoWalls(floorPlan) /\ togglePortalPlacement
  \/ \E id \in Ids : handleSelect(id)
  \/ \E r \in Ids, w \in Ids : handleWallSelect(r, w)
  \/ \E r \in Ids, v \in Ids, p \in DanglingDrops :
        LinkedAt(floorPlan, r, v) /\ vertexDragEnd(r, v, p[1], p[2])
  \/ keyDelete

NextDangling ==
  /\ DanglingEvents
  /\ nextId' <= MaxPortalIds
  /\ Len(floorPlan'.rooms) <= 2
  /\ Len(history') <= MaxDanglingHistory
  /\ UNCHANGED portalColorCache

SpecDangling == Init /\ [][NextDangling]_vars

\* three rooms in cells (0,0), (1,0), (2,0); a portal drawn in the room of cell
\* (0,0) and connected to another room; a room made narrower; endpoints of the
\* linked portals dragged.  Pointer positions (world) and the drop (room-local)
MirrorDowns == {<<10, 10>>, <<110, 10>>, <<210, 10>>}
MirrorMoves == {<<10, 50>>}
MirrorDrops == {<<30, 50>>}

\* some portal of the plan has both links set
SomeLinked(fp) ==
  \E i \in 1..Len(fp.rooms) : \E j \in 1..Len(fp.rooms[i].walls) :
     /\ fp.rooms[i].walls[j].isPortal
     /\ Truthy(fp.rooms[i].walls[j].connectedRoomId)
     /\ Truthy(fp.rooms[i].walls[j].connectedPortalId)

\* rooms are added while there are fewer than three, gestures start in cell
\* (0,0), portal placement is turned on or off while nothing has been drawn,
\* rooms are resized and endpoints dragged once a portal is linked
MirrorEvents ==
  \/ Len(floorPlan.rooms) < MaxMirrorRooms /\ addRoom
  \/ \E p \in MirrorDowns :
        (isPlacingRoom \/ p = <<10, 10>>) /\ handleCanvasClick(p[1], p[2])
  \/ \E p \in MirrorMoves : handleCanvasMouseMove(p[1], p[2])
  \/ handleStageMouseUp
  \/ NoWalls(floorPlan) /\ togglePortalPlacement
  \/ \E id \in Ids : handleSelect(id)
  \/ \E r \in Ids, w \in Ids : handleWallSelect(r, w)
  \/ \E id \in Ids, sz \in PortalSizes :
        SomeLinked(floorPlan) /\ updateRoomSize(id, sz[1], sz[2])
  \/ \E r \in Ids, v \in Ids, p \in MirrorDrops :
        LinkedAt(floorPlan, r, v) /\ vertexDragEnd(r, v, p[1], p[2])

NextMirror ==
  /\ MirrorEvents
  /\ nextId' <= MaxMirrorIds
  /\ Len(floorPlan'.rooms) <= MaxMirrorRooms
  /\ Len(history') <= MaxMirrorHistory
  /\ UNCHANGED portalColorCache

SpecMirror == Init /\ [][NextMirror]_vars

\* two rooms, a wall drawn in one of them, and calls of the portal utilities
\* on the rooms and walls of the plan
UtilVertexIds == {<<4, 5>>}

UtilEvents ==
  \/ Len(floorPlan.rooms) < 2 /\ addRoom
  \/ \E p \in PortalDowns : handleCanvasClick(p[1], p[2])
  \/ \E p \in PortalMoves : handleCanvasMouseMove(p[1], p[2])
  \/ handleStageMouseUp
  \/ NoWalls(floorPlan) /\ toggleWallPlacement
  \/ \E s \in Ids, t \in Ids, sv \in UtilVertexIds, tv \in UtilVertexIds :
        callCreatePortalPair(s, t, sv, tv)
  \/ \E r \in Ids, w \in Ids, s \in Ids, t \in Ids, c \in BOOLEAN :
        callCreatePortalFromWall(r, w, s, t, c)

NextUtil ==
  /\ UtilEvents
  /\ nextId' <= MaxUtilIds
  /\ Len(history') <= MaxUtilHistory
  /\ Len(floorPlan'.rooms) <= 2
  /\ UNCHANGED portalColorCache

SpecUtil == Init /\ [][NextUtil]_vars

\* two rooms, added first, and a portal drawn in one of them while no room has
\* a wall; before the other room is clicked the portal or its room is removed
\* by undo or Delete
StaleEvents ==
  \/ nextId < 2 /\ addRoom
  \/ \E p \in PortalDowns :
        (isPlacingRoom \/ NoWalls(floorPlan)) /\ handleCanvasClick(p[1], p[2])
  \/ \E p \in PortalMoves : handleCanvasMouseMove(p[1], p[2])
  \/ handleStageMouseUp
  \/ NoWalls(floorPlan) /\ togglePortalPlacement
  \/ \E id \in Ids : handleSelect(id)
  \/ \E r \in Ids, w \in Ids : handleWallSelect(r, w)
  \/ keyDelete
  \/ handleUndo

NextStale ==
  /\ StaleEvents
  /\ nextId' <= MaxStaleIds
  /\ Len(history') <= MaxStaleHistory
  /\ Len(floorPlan'.rooms) <= 2
  /\ UNCHANGED portalColorCache

SpecStale == Init /\ [][NextStale]_vars

-----------------------------------------------------------------------------
(* Export and import: a project with its own grid, rooms in cells 0 and -1, *)
(* a portal; the exported file and malformed files are imported             *)

\* pointer positions (world): cells (0,0) and (-1,0); the mouse move; the grid
\* sizes of a new project
ImportClicks == {<<10, 10>>, <<-40, 10>>}
ImportMoves == {<<10, 50>>}
ImportGrids == {<<50, 80>>}

\* a file that does not parse, and files that parse to something that is not
\* a floor plan: null, a number, a rooms list that holds null, a rooms list
\* that holds a number
MalformedFiles ==
  << Unparsable,
     Parsed(JNull),
     Parsed(JNum(42)),
     Parsed(JObj(<< <<"gridSizeWidth", JNum(100)>>, <<"gridSizeHeight", JNum(100)>>,
                    <<"rooms", JArr(<<JNull>>)>> >>)),
     Parsed(JObj(<< <<"gridSizeWidth", JNum(100)>>, <<"gridSizeHeight", JNum(100)>>,
                    <<"rooms", JArr(<<JNum(5)>>)>> >>)) >>

ImportEvents ==
  \/ addRoom
  \/ \E p \in ImportClicks : handleCanvasClick(p[1], p[2])
  \/ \E p \in ImportMoves : handleCanvasMouseMove(p[1], p[2])
  \/ handleStageMouseUp
  \/ togglePortalPlacement
  \/ \E g \in ImportGrids : createNewProject(g[1], g[2])
  \/ handleFileChange(handleExport)
  \/ \E i \in 1..Len(MalformedFiles) : handleFileChange(MalformedFiles[i])

NextImport ==
  /\ ImportEvents
  /\ nextId' <= MaxImportIds
  /\ Len(history') <= MaxImportHistory
  /\ UNCHANGED portalColorCache

SpecImport == Init /\ [][NextImport]_vars

-----------------------------------------------------------------------------
(* Portals drawn in any order: the colour cache fills up *)

\* portal ids "p", "p1", "p2", "q0"
PortalIdStrings == {<<112>>, <<112, 49>>, <<112, 50>>, <<113, 48>>}

\* unconnected portals, and portals that name another portal
ColorPortals ==
  {portal \in [id : PortalIdStrings, connectedPortalId : PortalIdStrings \cup {<<>>}] :
     portal.id # portal.connectedPortalId}

NextColor == \E portal \in ColorPortals : getPortalColor(portal)

SpecColor == Init /\ [][NextColor]_vars

-----------------------------------------------------------------------------
(* Properties of portal pairs *)

\* the portal walls of a room whose two links are set
LinkedPortals(room) ==
  {k \in 1..Len(room.walls) :
     /\ room.walls[k].isPortal
     /\ Truthy(room.walls[k].connectedRoomId)
     /\ Truthy(room.walls[k].connectedPortalId)}

\* portal wall P of room A has its counterpart: a portal wall of the room it
\* names, with the id it names, that names A and P in return
HasCounterpart(fp, A, P) ==
  /\ HasRoom(fp, P.connectedRoomId)
  /\ LET B == FindRoom(fp, P.connectedRoomId)
     IN  /\ HasWall(B, P.connectedPortalId)
         /\ LET Q == FindWall(B, P.connectedPortalId)
            IN  /\ Q.isPortal
                /\ Q.connectedRoomId = A.id
                /\ Q.connectedPortalId = P.id

\* C1 (portal symmetry): in every reachable state, every portal wall with both
\* links set has its counterpart in the room it names, linked back to it.
C1_PortalSymmetry ==
  \A i \in 1..Len(floorPlan.rooms) :
     LET A == floorPlan.rooms[i]
     IN  \A k \in LinkedPortals(A) : HasCounterpart(floorPlan, A, A.walls[k])

\* position of a vertex relative to its room: <<x / width, y / height>>
RelativePosition(room, vertexId) ==
  <<RDiv(FindVertex(room, vertexId).x, R(room.width)),
    RDiv(FindVertex(room, vertexId).y, R(room.height))>>

\* C2 (same relative position): in every reachable state, for every connected
\* portal pair and each endpoint index, the endpoint of the one portal and the
\* endpoint of the other are at the same position relative to their rooms.
C2_SameRelativePosition ==
  \A i \in 1..Len(floorPlan.rooms) :
     LET A == floorPlan.rooms[i]
     IN  \A k \in LinkedPortals(A) :
            LET P == A.walls[k]
            IN  HasCounterpart(floorPlan, A, P) =>
                  LET B == FindRoom(floorPlan, P.connectedRoomId)
                      Q == FindWall(B, P.connectedPortalId)
                  IN  \A e \in 1..2 :
                         /\ e <= Len(P.vertexIds) /\ e <= Len(Q.vertexIds)
                         /\ HasVertex(A, P.vertexIds[e]) /\ HasVertex(B, Q.vertexIds[e])
                         /\ RelativePosition(A, P.vertexIds[e])
                              = RelativePosition(B, Q.vertexIds[e])

\* C6 (deleteRoom): deleting room A removes A; in every other room every wall
\* and vertex stays, and each portal wall that named A has both links cleared.
C6_DeleteRoomSevers ==
  [][(lastOp'.name = "deleteRoom" /\ floorPlan' # floorPlan) =>
       LET A == lastOp'.room
       IN  /\ ~HasRoom(floorPlan', A)
           /\ \A i \in 1..Len(floorPlan.rooms) :
                LET B == floorPlan.rooms[i]
                IN  B.id # A =>
                      /\ HasRoom(floorPlan', B.id)
                      /\ LET after == FindRoom(floorPlan', B.id)
                         IN  /\ after.vertices = B.vertices
                             /\ Len(after.walls) = Len(B.walls)
                             /\ \A k \in 1..Len(B.walls) :
                                  after.walls[k] =
                                    IF B.walls[k].isPortal /\ B.walls[k].connectedRoomId = A
                                    THEN [B.walls[k] EXCEPT !.connectedRoomId = Null,
                                                            !.connectedPortalId = Null]
                                    ELSE B.walls[k]]_vars

\* C4 (relative-position preservation on drag): when a vertex drag takes
\* endpoint e of a connected portal of room A from (x, y) to (x', y'), the same
\* step moves endpoint e of the paired portal of room B by
\* ((x' - x) / A.width * B.width, (y' - y) / A.height * B.height).
C4_MirroredDrag ==
  [][(lastOp'.name = "handleVertexDrag" /\ floorPlan' # floorPlan) =>
       LET A == FindRoom(floorPlan, lastOp'.room)
           v == lastOp'.arg[1]
           newX == lastOp'.arg[2]
           newY == lastOp'.arg[3]
       IN  \A k \in LinkedPortals(A) :
              LET P == A.walls[k]
              IN  (Contains(P.vertexIds, v) /\ HasCounterpart(floorPlan, A, P)) =>
                    LET B == FindRoom(floorPlan, P.connectedRoomId)
                        Q == FindWall(B, P.connectedPortalId)
                        e == IndexOf(P.vertexIds, v)
                        old == FindVertex(A, v)
                        paired == FindVertex(B, Q.vertexIds[e])
                        after == FindRoom(floorPlan', B.id)
                    IN  /\ HasVertex(after, paired.id)
                        /\ FindVertex(after, paired.id).x =
                             RAdd(paired.x, RMul(RDiv(RSub(newX, old.x), R(A.width)),
                                                 R(B.width)))
                        /\ FindVertex(after, paired.id).y =
                             RAdd(paired.y, RMul(RDiv(RSub(newY, old.y), R(A.height)),
                                                 R(B.height)))]_vars

\* C5 (connection rescaling): when the pending portal of room A is connected
\* to room B, endpoint e of the new portal of B is at
\* (x / A.width * B.width, y / A.height * B.height), where (x, y) is the
\* position endpoint e of the source portal has in A when the connection is made.
C5_ConnectionRescaling ==
  [][(/\ lastOp'.name = "handleRoomClickForPortalConnection"
      /\ lastOp'.kind = "connected"
      /\ floorPlan' # floorPlan
      /\ pendingPortalConnection # None) =>
       LET pending == pendingPortalConnection[1]
           A == FindRoom(floorPlan, pending.sourceRoomId)
           P == FindWall(A, pending.portalId)
           B == FindRoom(floorPlan, lastOp'.room)
           after == FindRoom(floorPlan', B.id)
           Q == FindWall(after, FindWall(FindRoom(floorPlan', A.id), P.id).connectedPortalId)
       IN  \A e \in 1..2 :
              /\ FindVertex(after, Q.vertexIds[e]).x =
                   RMul(RDiv(FindVertex(A, P.vertexIds[e]).x, R(A.width)), R(B.width))
              /\ FindVertex(after, Q.vertexIds[e]).y =
                   RMul(RDiv(FindVertex(A, P.vertexIds[e]).y, R(A.height)), R(B.height))]_vars

-----------------------------------------------------------------------------
(* Properties of the vertex and wall graph of a room *)

\* C7 (vertex usage): after every handler, every vertex of every room is
\* referenced by at least one wall of that room.
C7_VertexUsage ==
  \A i \in 1..Len(floorPlan.rooms) :
     LET room == floorPlan.rooms[i]
     IN  \A k \in 1..Len(room.vertices) :
            \E w \in 1..Len(room.walls) :
               Contains(room.walls[w].vertexIds, room.vertices[k].id)

\* C8 (wall validity): every wall or portal of every room has at least two
\* vertex ids, pairwise distinct, each the id of a vertex of that room.
C8_WallValidity ==
  \A i \in 1..Len(floorPlan.rooms) :
     LET room == floorPlan.rooms[i]
     IN  \A w \in 1..Len(room.walls) :
            LET ids == room.walls[w].vertexIds
            IN  /\ Len(ids) >= 2
                /\ \A a, b \in 1..Len(ids) : a # b => ids[a] # ids[b]
                /\ \A a \in 1..Len(ids) : HasVertex(room, ids[a])

-----------------------------------------------------------------------------
(* Properties of the room registry and of the history *)

\* branches of the handlers that set the floor plan and record it
RecordKinds == {"placed", "moved", "resized", "deleted", "merge", "move", "mirror",
                "portal", "wall", "connected"}

\* C3 (grid exclusivity): whatever placements and moves were accepted or
\* rejected, no two distinct rooms of the floor plan hold the same grid cell.
C3_GridExclusivity ==
  \A i, j \in 1..Len(floorPlan.rooms) :
     i # j => \/ floorPlan.rooms[i].gridX # floorPlan.rooms[j].gridX
              \/ floorPlan.rooms[i].gridY # floorPlan.rooms[j].gridY

\* a move onto a cell held by another room was just rejected
C3_Witness ==
  /\ lastOp.name = "handleRoomDragEnd"
  /\ lastOp.kind = "rejected"
  /\ Len(floorPlan.rooms) >= 2

\* C9 (history idempotence): a handler that records a floor plan equal to the
\* entry at the cursor leaves the history list and the cursor as they were.
C9_HistoryIdempotence ==
  [][(lastOp'.kind \in RecordKinds /\ floorPlan' = history[historyIndex + 1])
       => UNCHANGED <<history, historyIndex>>]_vars

\* the one room was resized to the size it has: the record found the plan at
\* the cursor, and the history still holds the empty plan and the placement
C9_Witness ==
  /\ lastOp.name = "updateRoomSize"
  /\ Len(history) = 2
  /\ historyIndex = 1
  /\ floorPlan = history[2]

\* C10 (no branching history): a handler that records a floor plan different
\* from the entry at the cursor while later entries exist discards those
\* entries, makes the new plan the last entry and points the cursor at it; a redo
\* with the cursor at the last entry changes neither the plan nor the history.
C10_NoBranchingHistory ==
  [][/\ (/\ lastOp'.kind \in RecordKinds
         /\ floorPlan' # history[historyIndex + 1]
         /\ historyIndex < Len(history) - 1)
        => LET kept == Append(SubSeq(history, 1, historyIndex + 1), floorPlan')
           IN  /\ history' = IF Len(kept) > HistoryLimit THEN Tail(kept) ELSE kept
               /\ historyIndex' = Len(history') - 1
     /\ (lastOp'.name = "handleRedo" /\ historyIndex = Len(history) - 1)
        => UNCHANGED planVars]_vars

\* room 1 was placed and undone, room 2 placed in its stead (the entry with
\* room 1 is gone), and a redo then found nothing to restore
C10_Witness ==
  /\ lastOp.name = "handleRedo"
  /\ lastOp.kind = "nothing"
  /\ nextId = 2
  /\ Len(history) = 2
  /\ historyIndex = 1
  /\ Len(floorPlan.rooms) = 1
  /\ floorPlan.rooms[1].id = 2

\* C11 (history cap): the history never holds more than HistoryLimit entries;
\* a handler that records a plan different from the entry at the cursor, with
\* HistoryLimit entries held and the cursor at the last, drops the first entry,
\* keeps the others in order, appends the plan and leaves the cursor on it.
C11_HistoryCap ==
  /\ [](Len(history) <= HistoryLimit)
  /\ [][(/\ lastOp'.kind \in RecordKinds
          /\ floorPlan' # history[historyIndex + 1]
          /\ Len(history) = HistoryLimit
          /\ historyIndex = HistoryLimit - 1)
         => /\ history' = Append(Tail(history), floorPlan')
            /\ historyIndex' = HistoryLimit - 1]_vars

\* a resize was recorded with the history full: the entry of the empty plan
\* has been dropped
C11_Witness ==
  /\ lastOp.name = "updateRoomSize"
  /\ Len(history) = HistoryLimit
  /\ historyIndex = HistoryLimit - 1
  /\ history[1] # InitialFloorPlan
  /\ floorPlan = history[HistoryLimit]

\* C12 (undo and redo): an undo away from the first entry moves the cursor back
\* by one, a redo away from the last entry moves it forward by one; either
\* leaves the history as it is and makes the floor plan the entry at the new
\* cursor; an undo at the first entry and a redo at the last change neither
\* the cursor, nor the history, nor the floor plan.
C12_UndoRedo ==
  [][/\ (lastOp'.name = "handleUndo" /\ historyIndex = 0) => UNCHANGED planVars
     /\ (lastOp'.name = "handleRedo" /\ historyIndex = Len(history) - 1)
           => UNCHANGED planVars
     /\ (/\ lastOp'.name = "handleUndo"
         /\ lastOp' # lastOp \/ planVars' # planVars
         /\ historyIndex > 0)
           => /\ historyIndex' = historyIndex - 1
              /\ history' = history
              /\ floorPlan' = history[historyIndex' + 1]
     /\ (/\ lastOp'.name = "handleRedo"
         /\ lastOp' # lastOp \/ planVars' # planVars
         /\ historyIndex < Len(history) - 1)
           => /\ historyIndex' = historyIndex + 1
              /\ history' = history
              /\ floorPlan' = history[historyIndex' + 1]]_vars

\* a room was placed, the placement undone and then redone: the cursor is back
\* on the last entry and the plan is that entry
C12_Witness ==
  /\ lastOp = Op("handleRedo", Null, "redone")
  /\ Len(history) = 2
  /\ historyIndex = 1
  /\ Len(floorPlan.rooms) = 1
  /\ floorPlan = history[2]

\* C13 (rejected placement or move): a placement onto a cell that holds a room,
\* and a move onto a cell held by another room, change neither the floor plan,
\* nor the history, nor the cursor.
C13_RejectedUnchanged ==
  [][(/\ lastOp'.name \in {"placeRoomAtGridPosition", "handleRoomDragEnd"}
      /\ lastOp'.kind = "rejected")
       => UNCHANGED planVars]_vars

\* cell (0,0) was asked for twice: there is one room and one entry for it
C13_Witness ==
  /\ lastOp = Op("placeRoomAtGridPosition", Null, "rejected")
  /\ Len(floorPlan.rooms) = 1
  /\ Len(history) = 2
  /\ historyIndex = 1

\* C14 (drop on the own cell): a room drag whose drop snaps to the cell the
\* room is in, whether the room shape reports it or not, changes neither the
\* floor plan, nor the history, nor the cursor.
C14_SameCellNoOp ==
  [][(/\ lastOp'.name \in {"roomDragEnd", "handleRoomDragEnd"}
      /\ HasRoom(floorPlan, lastOp'.room)
      /\ RoundDiv(lastOp'.arg[1], floorPlan.gridSizeWidth)
           = FindRoom(floorPlan, lastOp'.room).gridX
      /\ RoundDiv(lastOp'.arg[2], floorPlan.gridSizeHeight)
           = FindRoom(floorPlan, lastOp'.room).gridY)
       => UNCHANGED planVars]_vars

\* the one room, placed at cell (0,0), was dropped at (20,0): the history still
\* holds the empty plan and the placement, with the cursor on the placement
C14_Witness ==
  /\ lastOp.name = "roomDragEnd"
  /\ lastOp.kind = "not moved"
  /\ lastOp.arg = <<20, 0>>
  /\ Len(floorPlan.rooms) = 1
  /\ Len(history) = 2
  /\ historyIndex = 1

\* C15 (room origin follows its cell): every room of the floor plan has
\* x = gridX * gridSizeWidth and y = gridY * gridSizeHeight.
C15_OriginFollowsCell ==
  \A i \in 1..Len(floorPlan.rooms) :
     /\ floorPlan.rooms[i].x = floorPlan.rooms[i].gridX * floorPlan.gridSizeWidth
     /\ floorPlan.rooms[i].y = floorPlan.rooms[i].gridY * floorPlan.gridSizeHeight

\* a room was moved to cell (-1,0)
C15_Witness ==
  /\ lastOp.name = "handleRoomDragEnd"
  /\ lastOp.kind = "moved"
  /\ HasRoom(floorPlan, lastOp.room)
  /\ FindRoom(floorPlan, lastOp.room).gridX = -1
  /\ FindRoom(floorPlan, lastOp.room).x = -100

\* C16 (maximum room size): a resize to (w, h) stores min(w, gridSizeWidth) and
\* min(h, gridSizeHeight), and every room of the floor plan is at most as wide
\* and as high as a grid cell.
C16_MaximumRoomSize ==
  /\ \A i \in 1..Len(floorPlan.rooms) :
        /\ floorPlan.rooms[i].width <= floorPlan.gridSizeWidth
        /\ floorPlan.rooms[i].height <= floorPlan.gridSizeHeight
  /\ lastOp.name = "updateRoomSize"
       => /\ HasRoom(floorPlan, lastOp.room)
          /\ FindRoom(floorPlan, lastOp.room).width
               = Min(lastOp.arg[1], floorPlan.gridSizeWidth)
          /\ FindRoom(floorPlan, lastOp.room).height
               = Min(lastOp.arg[2], floorPlan.gridSizeHeight)

\* a room was asked to be 200 by 200 and is 100 by 100
C16_Witness ==
  /\ lastOp.name = "updateRoomSize"
  /\ lastOp.arg = <<200, 200>>
  /\ HasRoom(floorPlan, lastOp.room)
  /\ FindRoom(floorPlan, lastOp.room).width = 100
  /\ FindRoom(floorPlan, lastOp.room).height = 100

\* the vertex ids of a wall with every reference to v replaced by t
Rewritten(ids, v, t) == [k \in 1..Len(ids) |-> IF ids[k] = v THEN t ELSE ids[k]]

\* C18 (vertex merge): when a vertex drag drops vertex v closer than the merge
\* threshold to another vertex of the room, then for one such vertex t: v is
\* removed from the room's vertices and no other vertex is removed or moved;
\* every wall that referenced v and has two distinct ids once v is replaced by
\* t is kept with v replaced by t in place; every wall left with fewer than
\* two distinct ids is removed; the walls not referencing v are unchanged and
\* no wall is added.
C18_VertexMerge ==
  [][(/\ lastOp'.name = "handleVertexDrag"
      /\ lastOp' # lastOp \/ planVars' # planVars
      /\ HasRoom(floorPlan, lastOp'.room)
      /\ HasVertex(FindRoom(floorPlan, lastOp'.room), lastOp'.arg[1])
      /\ \E k \in 1..Len(FindRoom(floorPlan, lastOp'.room).vertices) :
            LET u == FindRoom(floorPlan, lastOp'.room).vertices[k]
            IN  /\ u.id # lastOp'.arg[1]
                /\ DistLt(u.x, u.y, lastOp'.arg[2], lastOp'.arg[3], mergeThreshold))
       => LET room == FindRoom(floorPlan, lastOp'.room)
              after == FindRoom(floorPlan', lastOp'.room)
              v == lastOp'.arg[1]
          IN  /\ after.vertices = SelectSeq(room.vertices, LAMBDA u : u.id # v)
              /\ \E k \in 1..Len(room.vertices) :
                    LET t == room.vertices[k]
                    IN  /\ t.id # v
                        /\ DistLt(t.x, t.y, lastOp'.arg[2], lastOp'.arg[3], mergeThreshold)
                        /\ \A i \in 1..Len(room.walls) :
                              LET w == room.walls[i]
                                  ids == Rewritten(w.vertexIds, v, t.id)
                              IN  IF ~ Contains(w.vertexIds, v)
                                  THEN HasWall(after, w.id) /\ FindWall(after, w.id) = w
                                  ELSE IF Cardinality(Range(ids)) < 2
                                  THEN ~ HasWall(after, w.id)
                                  ELSE /\ HasWall(after, w.id)
                                       /\ Cardinality(Range(ids)) = Len(ids)
                                            => FindWall(after, w.id)
                                                 = [w EXCEPT !.vertexIds = ids]
              /\ \A i \in 1..Len(after.walls) : HasWall(room, after.walls[i].id)]_vars

\* vertex 3, shared by walls 2 = <<3, 4>> and 5 = <<3, 6>>, was dropped on
\* vertex 4: wall 2 is gone and wall 5 runs from vertex 4 to vertex 6
C18_Witness ==
  /\ lastOp.name = "handleVertexDrag"
  /\ lastOp.kind = "merge"
  /\ lastOp.arg[1] = 3
  /\ Len(floorPlan.rooms) = 1
  /\ Len(floorPlan.rooms[1].walls) = 1
  /\ floorPlan.rooms[1].walls[1].id = 5
  /\ floorPlan.rooms[1].walls[1].vertexIds = <<4, 6>>
  /\ Len(floorPlan.rooms[1].vertices) = 2

\* the room without wall wallId and without the vertices that only this wall
\* referenced
WithoutWall(room, wallId) ==
  LET W == FindWall(room, wallId)
      orphaned(u) ==
        /\ Contains(W.vertexIds, u.id)
        /\ \A i \in 1..Len(room.walls) :
              room.walls[i].id # wallId => ~ Contains(room.walls[i].vertexIds, u.id)
  IN  [room EXCEPT !.walls = SelectSeq(room.walls, LAMBDA w : w.id # wallId),
                   !.vertices = SelectSeq(room.vertices, LAMBDA u : ~ orphaned(u))]

\* C17 (portals are destroyed as a pair): deleting portal wall P of room A
\* whose links name portal wall Q of room B removes P from A and Q from B, each
\* with the vertices only it referenced; every other wall and vertex of A and
\* B, and every other room, stays as it was.
C17_PairDestroyed ==
  [][(/\ lastOp'.name = "handleWallDelete"
      /\ lastOp'.kind = "deleted"
      /\ lastOp' # lastOp \/ planVars' # planVars
      /\ HasRoom(floorPlan, lastOp'.room)
      /\ HasWall(FindRoom(floorPlan, lastOp'.room), lastOp'.arg[1])
      /\ LET A == FindRoom(floorPlan, lastOp'.room)
         IN  /\ \E k \in LinkedPortals(A) : A.walls[k].id = lastOp'.arg[1]
             /\ HasCounterpart(floorPlan, A, FindWall(A, lastOp'.arg[1])))
       => LET A == FindRoom(floorPlan, lastOp'.room)
              P == FindWall(A, lastOp'.arg[1])
          IN  /\ Len(floorPlan'.rooms) = Len(floorPlan.rooms)
              /\ \A i \in 1..Len(floorPlan.rooms) :
                    floorPlan'.rooms[i] =
                      IF floorPlan.rooms[i].id = A.id
                      THEN WithoutWall(floorPlan.rooms[i], P.id)
                      ELSE IF floorPlan.rooms[i].id = P.connectedRoomId
                      THEN WithoutWall(floorPlan.rooms[i], P.connectedPortalId)
                      ELSE floorPlan.rooms[i]]_vars

\* a connected portal was deleted: both rooms are left without walls and
\* without vertices
C17_Witness ==
  /\ lastOp.name = "handleWallDelete"
  /\ lastOp.kind = "deleted"
  /\ nextId = 8
  /\ Len(floorPlan.rooms) = 2
  /\ \A i \in 1..2 : floorPlan.rooms[i].walls = <<>> /\ floorPlan.rooms[i].vertices = <<>>

\* a handler recorded the floor plan it set as one new entry after the cursor
RecordedOnce ==
  /\ Len(history') = historyIndex + 2
  /\ history'[Len(history')] = floorPlan'
  /\ historyIndex' = Len(history') - 1
  /\ SubSeq(history', 1, historyIndex + 1) = SubSeq(history, 1, historyIndex + 1)

\* C19 (portal drawing): the release of a portal draw gesture longer than the
\* minimum length appends to the walls of the source room one portal wall with
\* both links null, whose two endpoint vertices are vertices of the room;
\* every other room is unchanged, one history entry is recorded, and the
\* pending connection holds the source room id, the id of that portal and the
\* coordinates of its two endpoints.
C19_PortalDrawing ==
  [][(/\ lastOp'.name = "handleStageMouseUp"
      /\ lastOp' # lastOp \/ planVars' # planVars
      /\ portalDraw.isDrawing /\ ~ portalDraw'.isDrawing
      /\ portalDraw.startPoint # None /\ portalDraw.preview # None
      /\ DistGt(portalDraw.preview[1].startX, portalDraw.preview[1].startY,
                portalDraw.preview[1].endX, portalDraw.preview[1].endY, MinLength))
       => LET A == portalDraw.startPoint[1].roomId
          IN  /\ HasRoom(floorPlan, A) /\ HasRoom(floorPlan', A)
              /\ Len(floorPlan'.rooms) = Len(floorPlan.rooms)
              /\ \A i \in 1..Len(floorPlan.rooms) :
                    floorPlan.rooms[i].id # A => floorPlan'.rooms[i] = floorPlan.rooms[i]
              /\ LET before == FindRoom(floorPlan, A)
                     after == FindRoom(floorPlan', A)
                     P == after.walls[Len(after.walls)]
                 IN  /\ Len(after.walls) = Len(before.walls) + 1
                     /\ SubSeq(after.walls, 1, Len(before.walls)) = before.walls
                     /\ ~ HasWall(before, P.id)
                     /\ P.isPortal
                     /\ P.connectedRoomId = Null /\ P.connectedPortalId = Null
                     /\ Len(P.vertexIds) = 2
                     /\ \A e \in 1..2 : HasVertex(after, P.vertexIds[e])
                     /\ pendingPortalConnection' # None
                     /\ pendingPortalConnection'[1].sourceRoomId = A
                     /\ pendingPortalConnection'[1].portalId = P.id
                     /\ \A e \in 1..2 :
                           /\ pendingPortalConnection'[1].vertices[e].x
                                = FindVertex(after, P.vertexIds[e]).x
                           /\ pendingPortalConnection'[1].vertices[e].y
                                = FindVertex(after, P.vertexIds[e]).y
              /\ RecordedOnce]_vars

-----------------------------------------------------------------------------
(* Properties of cancelling and discarding gestures *)

\* C21 (cancel by selecting the source room): while a connection is pending,
\* selecting the source room of that connection discards the pending
\* connection, leaves every room unchanged (the unconnected source portal
\* included) and records nothing in the history.
C21_CancelBySourceRoom ==
  [][(/\ pendingPortalConnection # None
      /\ lastOp'.name = "handleRoomClickForPortalConnection"
      /\ lastOp' # lastOp
      /\ lastOp'.room = pendingPortalConnection[1].sourceRoomId)
       => /\ pendingPortalConnection' = None
          /\ UNCHANGED planVars]_vars

\* the pointer is released: the gestures in progress end and the placement
\* modes stay as they are unless a wall is committed
Release ==
  /\ wallDraw.isDrawing \/ portalDraw.isDrawing
  /\ ~ wallDraw'.isDrawing /\ ~ portalDraw'.isDrawing
  /\ lastOp'.name = "handleStageMouseUp"
  /\ isPortalPlacementActive' = isPortalPlacementActive

\* C22 (cancel signal while awaiting a target): in every state in which a
\* connection is pending, the Escape key clears the pending connection and
\* leaves the floor plan (the unconnected source portal included) and the
\* history unchanged.
C22_EscapeWhilePending ==
  pendingPortalConnection # None
    => ENABLED (keyEscape /\ pendingPortalConnection' = None /\ UNCHANGED planVars)

\* C23 (cancel signal during a draw gesture): when Escape has arrived after
\* the start of a wall or portal gesture and before the release, the release
\* commits no wall, portal or vertex, records no history entry and creates no
\* pending connection.
C23_EscapeDuringGesture ==
  [][(Release /\ lastOp.name = "keyEscape")
       => /\ UNCHANGED planVars
          /\ pendingPortalConnection' = None]_vars

\* the release added one wall to the room the gesture was started in
CommittedTo(draw) ==
  LET r == draw.startPoint[1].roomId
  IN  /\ HasRoom(floorPlan, r) /\ HasRoom(floorPlan', r)
      /\ Len(FindRoom(floorPlan', r).walls) = Len(FindRoom(floorPlan, r).walls) + 1

\* C24 (minimum length): the release of a wall or portal gesture commits it
\* exactly when its two endpoints are at least MinLength apart; the release
\* of a shorter gesture leaves the floor plan, the history and the pending
\* connection unchanged.
C24_MinimumLength ==
  [][(/\ Release
      /\ wallDraw.isDrawing # portalDraw.isDrawing
      /\ drawEnds(IF wallDraw.isDrawing THEN wallDraw ELSE portalDraw))
       => LET draw == IF wallDraw.isDrawing THEN wallDraw ELSE portalDraw
              short == DistLt(draw.preview[1].startX, draw.preview[1].startY,
                              draw.preview[1].endX, draw.preview[1].endY, MinLength)
          IN  /\ CommittedTo(draw) <=> ~ short
              /\ short => UNCHANGED <<planVars, pendingPortalConnection>>]_vars

-----------------------------------------------------------------------------
(* Properties of deletion *)

\* the walls of the room that use the vertex
WallsUsing(room, vertexId) ==
  {i \in 1..Len(room.walls) : Contains(room.walls[i].vertexIds, vertexId)}

\* C25 (delete on a vertex of several walls): the Delete key, pressed while a
\* vertex is selected that more than one wall of the selected room uses (and
\* no wall is selected), leaves the floor plan and the history unchanged; in
\* particular the room is not deleted.
C25_MultiWallVertex ==
  [][(/\ keyDelete
      /\ ~ Truthy(selectedWallId)
      /\ Truthy(selectedVertexId)
      /\ HasRoom(floorPlan, selectedId)
      /\ Cardinality(WallsUsing(FindRoom(floorPlan, selectedId), selectedVertexId)) > 1)
       => /\ UNCHANGED planVars
          /\ HasRoom(floorPlan', selectedId)]_vars

\* Delete has just been refused on the selected vertex 3, which two walls use
C25_Witness ==
  /\ lastOp = Op("keyDelete", 1, "multi-wall vertex")
  /\ selectedVertexId = 3
  /\ selectedWallId = Null
  /\ HasRoom(floorPlan, 1)
  /\ Cardinality(WallsUsing(FindRoom(floorPlan, 1), 3)) = 2
  /\ history[historyIndex + 1] = floorPlan

-----------------------------------------------------------------------------
(* Properties of export and import *)

\* positive grid sizes, and every room at the origin of its cell
ValidFloorPlan(fp) ==
  /\ fp.gridSizeWidth > 0 /\ fp.gridSizeHeight > 0
  /\ \A i \in 1..Len(fp.rooms) :
        /\ fp.rooms[i].x = fp.rooms[i].gridX * fp.gridSizeWidth
        /\ fp.rooms[i].y = fp.rooms[i].gridY * fp.gridSizeHeight

\* C26 (round trip): for every valid floor plan (rooms in cell 0 and in
\* negative cells included), importing the file exported for it is accepted
\* and yields a floor plan equal to it, field for field.
C26_RoundTrip ==
  ValidFloorPlan(floorPlan)
    => /\ handleExport.parses
       /\ ~ importThrows(handleExport.value)
       /\ FloorPlanOf(importedPlan(handleExport.value)) = floorPlan

\* the exported file of a project with a 50 x 80 grid, a room in cell (0,0)
\* and one in cell (-1,0), and an unconnected portal, has just been imported
C26_Witness ==
  /\ lastOp = Op("importFloorPlan", Null, "imported")
  /\ ValidFloorPlan(floorPlan)
  /\ floorPlan.gridSizeWidth = 50
  /\ Len(floorPlan.rooms) = 2
  /\ \E i \in 1..2 : floorPlan.rooms[i].gridX = 0 /\ floorPlan.rooms[i].gridY = 0
  /\ \E i \in 1..2 : floorPlan.rooms[i].gridX = -1 /\ floorPlan.rooms[i].x = -50
  /\ \E i \in 1..2 : \E k \in 1..Len(floorPlan.rooms[i].walls) :
        /\ floorPlan.rooms[i].walls[k].isPortal
        /\ floorPlan.rooms[i].walls[k].connectedRoomId = Null
  /\ history[historyIndex + 1] = floorPlan

\* C27 (atomic replace-or-reject import): the import of a malformed file (one
\* that does not parse, or parses to a value that is not a floor plan) leaves
\* the floor plan and the history unchanged.
C27_MalformedImport ==
  [][\A i \in 1..Len(MalformedFiles) :
        handleFileChange(MalformedFiles[i]) => UNCHANGED planVars]_vars

-----------------------------------------------------------------------------
(* Properties of portal colours *)

\* C28 (portal colour): the colour getPortalColor returns for a portal is the
\* colour of its key (its own id if unconnected, otherwise the smaller of its
\* id and connectedPortalId), whatever calls were made before; and the two
\* portals of a symmetric pair, drawn one after the other, get the same colour.
C28_PortalColour ==
  /\ lastOp.name = "getPortalColor"
       => lastOp.arg[3] =
            colorOf(IF lastOp.arg[2] = <<>> THEN lastOp.arg[1]
                    ELSE IF StrLess(lastOp.arg[1], lastOp.arg[2])
                    THEN lastOp.arg[1] ELSE lastOp.arg[2])
  /\ \A P \in ColorPortals :
        P.connectedPortalId # <<>> =>
          LET Q == [id |-> P.connectedPortalId, connectedPortalId |-> P.id]
          IN  colorReturned(portalColorCache, P)
                = colorReturned(cacheAfter(portalColorCache, P), Q)

\* portal "p2", paired with "p1", has just been given the colour cached under
\* "p1", after portals with other keys were drawn
C28_Witness ==
  /\ lastOp.name = "getPortalColor"
  /\ lastOp.kind = "cached"
  /\ lastOp.arg[1] = <<112, 50>>
  /\ lastOp.arg[2] = <<112, 49>>
  /\ lastOp.arg[3] = <<281, 80, 55>>
  /\ Cardinality(DOMAIN portalColorCache) = 3

\* C29 (orphan vertices of a deleted wall): after handleWallDelete removes wall
\* w from a room, each vertex that was an endpoint of w is a vertex of the room
\* exactly when a remaining wall of the room uses it, and every vertex of the
\* room that was not an endpoint of w is left as it was.
C29_OrphanVertices ==
  [][(/\ lastOp'.name = "handleWallDelete"
      /\ lastOp'.kind = "deleted"
      /\ lastOp' # lastOp \/ planVars' # planVars
      /\ HasRoom(floorPlan, lastOp'.room)
      /\ HasWall(FindRoom(floorPlan, lastOp'.room), lastOp'.arg[1]))
       => LET room == FindRoom(floorPlan, lastOp'.room)
              w == FindWall(room, lastOp'.arg[1])
              after == FindRoom(floorPlan', lastOp'.room)
          IN  /\ HasRoom(floorPlan', room.id)
              /\ ~ HasWall(after, w.id)
              /\ \A e \in 1..Len(w.vertexIds) :
                    HasVertex(after, w.vertexIds[e])
                      <=> WallsUsing(after, w.vertexIds[e]) # {}
              /\ after.vertices =
                   SelectSeq(room.vertices, LAMBDA v :
                     ~ Contains(w.vertexIds, v.id) \/ HasVertex(after, v.id))]_vars

\* a portal of the room that uses the vertex, has both links set, and whose
\* counterpart is missing: the room is absent, or has no wall with that id
DanglingAt(fp, room, vertexId) ==
  \E i \in 1..Len(room.walls) :
     LET w == room.walls[i]
     IN  /\ w.isPortal
         /\ Contains(w.vertexIds, vertexId)
         /\ Truthy(w.connectedRoomId) /\ Truthy(w.connectedPortalId)
         /\ \/ ~ HasRoom(fp, w.connectedRoomId)
            \/ ~ HasWall(FindRoom(fp, w.connectedRoomId), w.connectedPortalId)

\* no portal of the room that uses the vertex has a counterpart that exists
NoCounterpartAt(fp, room, vertexId) ==
  \A i \in 1..Len(room.walls) :
     LET w == room.walls[i]
     IN  (/\ w.isPortal
          /\ Contains(w.vertexIds, vertexId)
          /\ Truthy(w.connectedRoomId) /\ Truthy(w.connectedPortalId))
           => \/ ~ HasRoom(fp, w.connectedRoomId)
              \/ ~ HasWall(FindRoom(fp, w.connectedRoomId), w.connectedPortalId)

\* C30 (missing counterpart): when handleVertexDrag is given an endpoint of a
\* portal whose linked room or linked wall no longer exists (and no other
\* portal at that vertex has a counterpart), the drag is not dropped: it moves
\* the vertex to the new position, or merges it into the nearby vertex, in its
\* own room; every other room is unchanged; one history entry is recorded
\* (none when the vertex is dropped where it was and the plan is the same).
C30_MissingCounterpart ==
  [][\A r \in Ids, v \in Ids, p \in DanglingDrops :
       (/\ vertexDragEnd(r, v, p[1], p[2])
        /\ DanglingAt(floorPlan, FindRoom(floorPlan, r), v)
        /\ NoCounterpartAt(floorPlan, FindRoom(floorPlan, r), v))
         => LET after == FindRoom(floorPlan', r)
            IN  /\ lastOp'.kind \in {"move", "merge"}
                /\ HasRoom(floorPlan', r)
                /\ lastOp'.kind = "move" =>
                      /\ HasVertex(after, v)
                      /\ FindVertex(after, v).x = lastOp'.arg[2]
                      /\ FindVertex(after, v).y = lastOp'.arg[3]
                /\ lastOp'.kind = "merge" =>
                      /\ ~ HasVertex(after, v)
                      /\ \A i \in 1..Len(after.walls) :
                            ~ Contains(after.walls[i].vertexIds, v)
                /\ Len(floorPlan'.rooms) = Len(floorPlan.rooms)
                /\ \A i \in 1..Len(floorPlan.rooms) :
                      floorPlan.rooms[i].id # r => floorPlan'.rooms[i] = floorPlan.rooms[i]
                /\ IF floorPlan' = floorPlan
                   THEN UNCHANGED <<history, historyIndex>>
                   ELSE RecordedOnce]_vars

C30_Witness ==
  /\ lastOp.name = "handleVertexDrag"
  /\ lastOp.kind = "move"
  /\ HasRoom(floorPlan, lastOp.room)
  /\ DanglingAt(floorPlan, FindRoom(floorPlan, lastOp.room), lastOp.arg[1])
  /\ NoCounterpartAt(floorPlan, FindRoom(floorPlan, lastOp.room), lastOp.arg[1])
  /\ historyIndex >= 1
  /\ DanglingAt(history[historyIndex], FindRoom(history[historyIndex], lastOp.room),
                lastOp.arg[1])
  /\ FindVertex(FindRoom(floorPlan, lastOp.room), lastOp.arg[1]).x = lastOp.arg[2]
  /\ FindVertex(FindRoom(floorPlan, lastOp.room), lastOp.arg[1]).y = lastOp.arg[3]
  /\ FindVertex(FindRoom(history[historyIndex], lastOp.room), lastOp.arg[1])
       # FindVertex(FindRoom(floorPlan, lastOp.room), lastOp.arg[1])

\* C31 (frame of the mirrored move): a portal-linked handleVertexDrag leaves
\* the wall list of the connected room, the ids, flags, order and number of
\* its vertices and its other fields as they were; the only vertex of that
\* room whose coordinates may change is the corresponding endpoint of the
\* counterpart portal (it is not merged, wherever it lands); every room other
\* than the source and the connected room is unchanged.
C31_MirroredFrame ==
  [][(/\ lastOp'.name = "handleVertexDrag"
      /\ lastOp'.kind = "mirror"
      /\ lastOp' # lastOp \/ planVars' # planVars)
       => LET r == lastOp'.room
              v == lastOp'.arg[1]
              info == connectedPortalInfo(floorPlan, FindRoom(floorPlan, r), v)[1]
              target == FindRoom(floorPlan, info.targetRoomId)
              tv == FindWall(target, info.targetPortalId).vertexIds[info.draggedVertexIndex]
              after == FindRoom(floorPlan', target.id)
          IN  /\ Len(floorPlan'.rooms) = Len(floorPlan.rooms)
              /\ HasRoom(floorPlan', target.id)
              /\ after.walls = target.walls
              /\ Len(after.vertices) = Len(target.vertices)
              /\ [after EXCEPT !.vertices = target.vertices] = target
              /\ \A i \in 1..Len(target.vertices) :
                    /\ after.vertices[i].id = target.vertices[i].id
                    /\ after.vertices[i].isPortalVertex = target.vertices[i].isPortalVertex
                    /\ after.vertices[i] # target.vertices[i] => target.vertices[i].id = tv
              /\ \A i \in 1..Len(floorPlan.rooms) :
                    floorPlan.rooms[i].id \notin {r, target.id}
                      => floorPlan'.rooms[i] = floorPlan.rooms[i]]_vars

\* a mirrored move with a third room present has left the moved endpoint of
\* the connected room closer than the merge threshold to another vertex of
\* that room, and both are still there
C31_Witness ==
  /\ lastOp.name = "handleVertexDrag"
  /\ lastOp.kind = "mirror"
  /\ Len(floorPlan.rooms) = 3
  /\ historyIndex >= 1
  /\ history[historyIndex + 1] = floorPlan
  /\ \E i \in 1..Len(floorPlan.rooms) :
        LET t == floorPlan.rooms[i]
            before == FindRoom(history[historyIndex], t.id)
        IN  /\ t.id # lastOp.room
            /\ HasRoom(history[historyIndex], t.id)
            /\ Len(before.vertices) = Len(t.vertices)
            /\ \E j, k \in 1..Len(t.vertices) :
                  /\ j # k
                  /\ t.vertices[j] # before.vertices[j]
                  /\ DistLt(t.vertices[j].x, t.vertices[j].y,
                            t.vertices[k].x, t.vertices[k].y, mergeThreshold)

\* the vertices of the room after the step that the room did not have before
AddedVertices(before, after) ==
  {i \in 1..Len(after.vertices) : ~ HasVertex(before, after.vertices[i].id)}

\* C32 (vertex reuse when drawing): the release that commits a wall or portal
\* gesture adds the new wall last, with each endpoint either a vertex the
\* room already had or a vertex added by this release; it adds at most two
\* vertices, keeps the old ones, and adds no vertex closer than the snap
\* tolerance to a vertex that the room already had.
C32_VertexReuse ==
  [][(/\ lastOp'.name = "handleStageMouseUp"
      /\ lastOp'.kind \in {"wall", "portal"}
      /\ lastOp' # lastOp \/ planVars' # planVars
      /\ HasRoom(floorPlan, lastOp'.room))
       => LET before == FindRoom(floorPlan, lastOp'.room)
              after == FindRoom(floorPlan', lastOp'.room)
              added == AddedVertices(before, after)
              newWall == after.walls[Len(after.walls)]
          IN  /\ Len(after.walls) = Len(before.walls) + 1
              /\ \A e \in 1..Len(newWall.vertexIds) : HasVertex(after, newWall.vertexIds[e])
              /\ Len(after.vertices) = Len(before.vertices) + Cardinality(added)
              /\ Cardinality(added) <= 2
              /\ \A i \in added : Contains(newWall.vertexIds, after.vertices[i].id)
              /\ \A i \in added : \A k \in 1..Len(before.vertices) :
                    ~ DistLt(after.vertices[i].x, after.vertices[i].y,
                             before.vertices[k].x, before.vertices[k].y, sensitivity)]_vars

\* C33 (vertices stay inside their room): every vertex of every room has
\* 0 <= x <= room.width and 0 <= y <= room.height.
C33_VerticesInside ==
  \A i \in 1..Len(floorPlan.rooms) :
     LET room == floorPlan.rooms[i]
     IN  \A k \in 1..Len(room.vertices) :
            /\ RLe(R(0), room.vertices[k].x) /\ RLe(room.vertices[k].x, R(room.width))
            /\ RLe(R(0), room.vertices[k].y) /\ RLe(room.vertices[k].y, R(room.height))

\* C34 (portal-vertex flag): every vertex that a portal wall of a room refers
\* to, and that the room has, is flagged isPortalVertex.
C34_PortalVertexFlag ==
  \A i \in 1..Len(floorPlan.rooms) :
     LET room == floorPlan.rooms[i]
     IN  \A j \in 1..Len(room.walls) : \A e \in 1..Len(room.walls[j].vertexIds) :
            (room.walls[j].isPortal /\ HasVertex(room, room.walls[j].vertexIds[e]))
              => FindVertex(room, room.walls[j].vertexIds[e]).isPortalVertex

\* C35 (current plan is the cursor entry): the cursor indexes an entry of the
\* history, and the floor plan is equal to that entry, after every edit
\* (recorded, rejected or without effect), undo and redo.
C35_PlanAtCursor ==
  /\ historyIndex >= 0
  /\ historyIndex + 1 <= Len(history)
  /\ history[historyIndex + 1] = floorPlan

\* a resize that changed nothing, made after an undo: the cursor is inside
\* the history and entries after it are kept
C35_Witness ==
  /\ lastOp.name = "updateRoomSize"
  /\ historyIndex >= 1
  /\ historyIndex + 1 < Len(history)
  /\ history[historyIndex + 1] = floorPlan
  /\ history[historyIndex + 2] # floorPlan

\* the two links of a wall are both null or both set
LinksTogether(w) == (w.connectedRoomId = Null) <=> (w.connectedPortalId = Null)

AllLinksTogether(fp) ==
  \A i \in 1..Len(fp.rooms) : \A j \in 1..Len(fp.rooms[i].walls) :
     LinksTogether(fp.rooms[i].walls[j])

\* C36 (links set or cleared together): every portal of the floor plan, of a
\* plan returned by createPortalFromWall and of a pair returned by
\* createPortalPair has connectedRoomId null exactly when connectedPortalId
\* is null.
C36_LinksTogether ==
  /\ AllLinksTogether(floorPlan)
  /\ lastOp.name = "createPortalFromWall" => AllLinksTogether(lastOp.arg[1])
  /\ lastOp.name = "createPortalPair" =>
        LinksTogether(lastOp.arg[1]) /\ LinksTogether(lastOp.arg[2])

\* the source room of the pending connection, or the portal in it, is gone
SourceGone(fp, pending) ==
  \/ ~ HasRoom(fp, pending.sourceRoomId)
  \/ ~ HasWall(FindRoom(fp, pending.sourceRoomId), pending.portalId)

\* C37 (stale pending connection): a click on a room other than the source
\* room, made while a connection is pending whose source room or source
\* portal no longer exists, leaves the floor plan, the history and the cursor
\* as they were and clears the pending connection.
C37_StalePending ==
  [][\A id \in Ids :
       (/\ handleSelect(id)
        /\ pendingPortalConnection # None
        /\ id # pendingPortalConnection[1].sourceRoomId
        /\ SourceGone(floorPlan, pendingPortalConnection[1]))
         => /\ UNCHANGED planVars
            /\ pendingPortalConnection' = None]_vars

\* a pending connection whose portal was undone has been dropped by a click
\* on the other room
C37_Witness ==
  /\ lastOp.name = "handleRoomClickForPortalConnection"
  /\ lastOp.kind = "stale"
  /\ pendingPortalConnection = None
  /\ Len(floorPlan.rooms) = 2
  /\ NoWalls(floorPlan)
  /\ historyIndex + 1 < Len(history)
  /\ history[historyIndex + 1] = floorPlan

\* C38 (undo/redo round trip): where undo is possible, undo and then redo
\* give back the floor plan, the cursor and the history entries; where redo
\* is possible, redo and then undo do the same; and undo after an edit that
\* recorded a new entry gives back the floor plan of before the edit.
C38_RoundTrip ==
  [][/\ handleUndo
          => /\ <<history', historyIndex', floorPlan'>>
                  = undoOf(history, historyIndex, floorPlan)
             /\ historyIndex > 0
                  => redoOf(history', historyIndex', floorPlan')
                       = <<history, historyIndex, floorPlan>>
     /\ handleRedo
          => /\ <<history', historyIndex', floorPlan'>>
                  = redoOf(history, historyIndex, floorPlan)
             /\ historyIndex < Len(history) - 1
                  => undoOf(history', historyIndex', floorPlan')
                       = <<history, historyIndex, floorPlan>>
     /\ history' # history
          => /\ historyIndex' > 0
             /\ undoOf(history', historyIndex', floorPlan')[3] = floorPlan]_vars

\* a redo made between two entries: both undo and redo are possible
C38_Witness ==
  /\ lastOp.name = "handleRedo"
  /\ lastOp.kind = "redone"
  /\ historyIndex > 0
  /\ historyIndex < Len(history) - 1
  /\ history[historyIndex + 1] = floorPlan
  /\ history[historyIndex] # floorPlan
  /\ history[historyIndex + 2] # floorPlan

=============================================================================
